---- MODULE Spec2Model ----
(***************************************************************************)
(* Diff / patch engine of the session viewer (renderer of tool-call       *)
(* records): line alignment, hunk building, word alignment, apply-patch    *)
(* normalisation and diff row classification.                              *)
(*                                                                         *)
(* Strings are sequences of one-character strings, so that prefixes,       *)
(* slices, trimming and splitting are computed character by character as   *)
(* the code computes them.  Array indices keep the code's 0-based values;  *)
(* element k of a JavaScript array is element k + 1 of the sequence.       *)
(*                                                                         *)
(* The state of the App component follows: the category chips, the         *)
(* refresh of the index, the project and session lists with the            *)
(* navigation to a search result, and the session detail requests.         *)
(* Identifiers and status texts of the App are plain strings; a state      *)
(* that the code holds as null is a record with a flag.                    *)
(***************************************************************************)
EXTENDS Integers, Sequences, FiniteSets, TLC

VARIABLES
    pc,          \* position of the call being followed
    oldLines,    \* buildLineOperations: first argument
    newLines,    \* buildLineOperations: second argument
    context,     \* buildDiffHunks: context argument
    operations,  \* result of buildLineOperations
    hunks,       \* result of buildDiffHunks
    left,        \* diffInlineSegments: first argument
    right,       \* diffInlineSegments: second argument
    inline,      \* result of diffInlineSegments
    rawText,     \* ToolEditContent: the message text, as the JSON value it parses to
    invocation,  \* result of parseToolInvocationPayload
    edit,        \* result of parseToolEditPayload
    diffText,    \* the diff text handed to DiffBlock
    rows,        \* the rows DiffBlock renders
    view,        \* which branch of ToolEditContent rendered the message
    searchCategories,         \* App: categories selected in the search view
    refreshing,               \* App: the refreshing flag
    refreshMode,              \* App: "incremental" or "force"
    statusText,               \* App: the status line
    refreshes,                \* calls of handleRefresh that have not finished
    projects,                 \* App: the projects listed, in sorted order
    selectedProjectId,        \* App
    sessions,                 \* App: the sessions listed, in sorted order
    selectedSessionId,        \* App
    sessionPage,              \* App
    focusSourceId,            \* App
    pendingSearchNavigation,  \* App: null or the search result to navigate to
    mainView,                 \* App: "history" or "search"
    sessionsRequests,         \* sessions:list requests in flight
    loadSessionsFor,          \* the selectedProjectId the sessions effect last ran with
    historyCategories,        \* App: categories selected in the history view
    sessionQuery,             \* App: the debounced query of the session view
    sessionDetail,            \* App: null or the last response applied
    detailRequests,           \* sessions:getDetail requests in flight
    detailIssued              \* number of sessions:getDetail requests issued

vars == <<pc, oldLines, newLines, context, operations, hunks, left, right,
          inline, rawText, invocation, edit, diffText, rows, view,
          searchCategories, refreshing, refreshMode, statusText, refreshes,
          projects, selectedProjectId, sessions, selectedSessionId, sessionPage,
          focusSourceId, pendingSearchNavigation, mainView, sessionsRequests,
          loadSessionsFor, historyCategories, sessionQuery, sessionDetail, detailRequests,
          detailIssued>>

lineVars == <<oldLines, newLines, context, operations, hunks>>
wordVars == <<left, right, inline>>
editVars == <<rawText, invocation, edit, diffText, rows, view>>
chipVars == <<searchCategories>>
refreshVars == <<refreshing, refreshMode, refreshes>>
listVars == <<projects, selectedProjectId, sessions, pendingSearchNavigation,
              mainView, sessionsRequests, loadSessionsFor>>
detailVars == <<historyCategories, sessionQuery, sessionDetail, detailRequests,
                detailIssued>>
sharedVars == <<statusText, selectedSessionId, sessionPage, focusSourceId>>
appVars == <<chipVars, refreshVars, listVars, detailVars, sharedVars>>

(***************************************************************************)
(* Bounds of the model.                                                    *)
(***************************************************************************)
MaxLines == 4        \* longest line sequence given to buildLineOperations
MaxContext == 2      \* largest context given to buildDiffHunks directly
MaxChars == 4        \* longest string given to diffInlineSegments
MaxTextLines == 4    \* most lines in an old/new text of a payload
MaxMarkedLines == 2  \* most lines in an old/new text with lines that look like headers
MaxPatchLines == 3   \* most lines in an apply-patch input of a payload

(***************************************************************************)
(* JavaScript values.  null is a one-element sequence that no string (a    *)
(* sequence of single characters) equals.                                  *)
(***************************************************************************)
Null == <<"null">>

Max(a, b) == IF a >= b THEN a ELSE b

Min(a, b) == IF a <= b THEN a ELSE b

\* String.prototype.startsWith
StartsWith(s, prefix) ==
    /\ Len(s) >= Len(prefix)
    /\ SubSeq(s, 1, Len(prefix)) = prefix

\* String.prototype.slice(n) / Array.prototype.slice(n)
Slice(s, n) == SubSeq(s, n + 1, Len(s))

\* The white space of String.prototype.trim and of the regular expression \s
IsSpace(c) == c \in {" ", "\t", "\n", "\r"}

RECURSIVE TrimStart(_)
TrimStart(s) ==
    IF s # <<>> /\ IsSpace(s[1]) THEN TrimStart(Tail(s)) ELSE s

RECURSIVE TrimEnd(_)
TrimEnd(s) ==
    IF s # <<>> /\ IsSpace(s[Len(s)]) THEN TrimEnd(SubSeq(s, 1, Len(s) - 1)) ELSE s

\* String.prototype.trim
Trim(s) == TrimEnd(TrimStart(s))

\* String.prototype.includes
Includes(s, sub) ==
    \E k \in 0..(Len(s) - Len(sub)) : SubSeq(s, k + 1, k + Len(sub)) = sub

\* String.prototype.split(/\r?\n/): a line ends before "\n", or before the
\* "\r" that comes right before it; the text after the last "\n" is the last
\* line.
SplitLines(s) ==
    LET breaks == {k \in 1..Len(s) : s[k] = "\n"}
        \* the position of the i-th "\n": 0 before the first line, Len(s) + 1
        \* after the last
        break(i) == IF i = 0 THEN 0
                    ELSE IF i > Cardinality(breaks) THEN Len(s) + 1
                    ELSE CHOOSE k \in breaks :
                             Cardinality({b \in breaks : b < k}) = i - 1
        last(i) == IF /\ i <= Cardinality(breaks)
                      /\ break(i) - 1 > break(i - 1)
                      /\ s[break(i) - 1] = "\r"
                   THEN break(i) - 2
                   ELSE break(i) - 1
    IN  [i \in 1..(Cardinality(breaks) + 1) |-> SubSeq(s, break(i - 1) + 1, last(i))]

\* Array.prototype.join("\n")
RECURSIVE JoinLines(_)
JoinLines(ls) ==
    IF ls = <<>> THEN <<>>
    ELSE IF Len(ls) = 1 THEN ls[1]
    ELSE ls[1] \o <<"\n">> \o JoinLines(Tail(ls))

\* Array.prototype.join(" ")
RECURSIVE JoinSpace(_)
JoinSpace(ws) ==
    IF ws = <<>> THEN <<>>
    ELSE IF Len(ws) = 1 THEN ws[1]
    ELSE ws[1] \o <<" ">> \o JoinSpace(Tail(ws))

Digits == <<"0", "1", "2", "3", "4", "5", "6", "7", "8", "9">>

IsDigit(c) == \E d \in 1..10 : Digits[d] = c

DigitValue(c) == (CHOOSE d \in 1..10 : Digits[d] = c) - 1

\* Template literal `${n}` of a non-negative integer
RECURSIVE ToDecimal(_)
ToDecimal(n) ==
    IF n < 10 THEN <<Digits[n + 1]>>
    ELSE Append(ToDecimal(n \div 10), Digits[(n % 10) + 1])

\* Number(text) of a run of decimal digits
RECURSIVE ToNumber(_)
ToNumber(ds) ==
    IF ds = <<>> THEN 0
    ELSE 10 * ToNumber(SubSeq(ds, 1, Len(ds) - 1)) + DigitValue(ds[Len(ds)])

(***************************************************************************)
(* buildLineOperations                                                     *)
(***************************************************************************)

\* The matrix as it is created, before the loops fill it.
ZeroMatrix(as, bs) == [i \in 0..Len(as), j \in 0..Len(bs) |-> 0]

\* The matrix filled by the two nested loops: matrix[i][j] is the length of a
\* longest common subsequence of as[i..] and bs[j..]; row Len(as) and column
\* Len(bs) keep the 0 they were created with.
SuffixLcsMatrix(as, bs) ==
    LET matrix[i \in 0..Len(as), j \in 0..Len(bs)] ==
            IF i = Len(as) \/ j = Len(bs) THEN 0
            ELSE IF as[i + 1] = bs[j + 1] THEN matrix[i + 1, j + 1] + 1
            ELSE Max(matrix[i + 1, j], matrix[i, j + 1])
    IN  matrix

\* A walk that adds when the two values are equal.
PreferRemoveStrictly(matrix, i, j) == matrix[i + 1, j] > matrix[i, j + 1]

\* The condition under which the walk removes rather than adds at a mismatch.
PreferRemove(matrix, i, j) == matrix[i + 1, j] >= matrix[i, j + 1]

EqualOp(line, oldLine, newLine) ==
    [type |-> "equal", line |-> line, oldLine |-> oldLine, newLine |-> newLine]

\* A removal that carries its old line number on the new side as well.
RemoveOpBothNumbers(line, oldLine) ==
    [type |-> "remove", line |-> line, oldLine |-> oldLine, newLine |-> oldLine]

RemoveOp(line, oldLine) ==
    [type |-> "remove", line |-> line, oldLine |-> oldLine, newLine |-> 0]

AddOp(line, newLine) ==
    [type |-> "add", line |-> line, oldLine |-> 0, newLine |-> newLine]

\* The three while loops, from the position (i, j) with the counters
\* oldLine and newLine, returning the operations pushed from there on.
RECURSIVE WalkLines(_, _, _, _, _, _, _)
WalkLines(olds, news, matrix, i, j, oldLine, newLine) ==
    IF i < Len(olds) /\ j < Len(news) THEN
        IF olds[i + 1] = news[j + 1]
        THEN <<EqualOp(olds[i + 1], oldLine, newLine)>>
             \o WalkLines(olds, news, matrix, i + 1, j + 1, oldLine + 1, newLine + 1)
        ELSE IF PreferRemove(matrix, i, j)
        THEN <<RemoveOp(olds[i + 1], oldLine)>>
             \o WalkLines(olds, news, matrix, i + 1, j, oldLine + 1, newLine)
        ELSE <<AddOp(news[j + 1], newLine)>>
             \o WalkLines(olds, news, matrix, i, j + 1, oldLine, newLine + 1)
    ELSE IF i < Len(olds)
    THEN <<RemoveOp(olds[i + 1], oldLine)>>
         \o WalkLines(olds, news, matrix, i + 1, j, oldLine + 1, newLine)
    ELSE IF j < Len(news)
    THEN <<AddOp(news[j + 1], newLine)>>
         \o WalkLines(olds, news, matrix, i, j + 1, oldLine, newLine + 1)
    ELSE <<>>

\* The walk with the loop of trailing removes stopping one line early.
BuildLineOperationsShortTail(olds, news) ==
    LET ops == WalkLines(olds, news, SuffixLcsMatrix(olds, news), 0, 0, 1, 1)
    IN  IF ops # <<>> /\ ops[Len(ops)].type = "remove"
        THEN SubSeq(ops, 1, Len(ops) - 1)
        ELSE ops

BuildLineOperations(olds, news) ==
    WalkLines(olds, news, SuffixLcsMatrix(olds, news), 0, 0, 1, 1)

(***************************************************************************)
(* buildDiffHunks                                                          *)
(***************************************************************************)

\* First for loop: the first index >= cursor whose operation is not equal,
\* -1 when there is none.
RECURSIVE FirstChange(_, _)
FirstChange(ops, index) ==
    IF index >= Len(ops) THEN -1
    ELSE IF ops[index + 1].type # "equal" THEN index
    ELSE FirstChange(ops, index + 1)

\* Second for loop, from index on, with the current lastChange and hunkEnd.
RECURSIVE ExtendHunk(_, _, _, _, _)
ExtendHunk(ops, ctx, index, lastChange, hunkEnd) ==
    IF index >= Len(ops) THEN [lastChange |-> lastChange, hunkEnd |-> hunkEnd]
    ELSE LET last == IF ops[index + 1].type # "equal" THEN index ELSE lastChange
         IN  IF index - last > ctx
             THEN [lastChange |-> last, hunkEnd |-> hunkEnd]
             ELSE ExtendHunk(ops, ctx, index + 1, last, index)

\* A hunk that starts one operation earlier than the context allows.
HunkStartOneEarlier(firstChange, ctx, cursor) == Max(0, firstChange - ctx - 1)

\* The index at which a hunk whose first change is at firstChange starts.
HunkStart(firstChange, ctx, cursor) == Max(0, firstChange - ctx)

\* The window [hunkStart, hunkEnd] (with lastChange) of the hunk built by one
\* pass of the outer while loop started at cursor; firstChange >= 0.
HunkWindow(ops, ctx, cursor, firstChange) ==
    LET start0 == HunkStart(firstChange, ctx, cursor)
        ext == ExtendHunk(ops, ctx, firstChange + 1, firstChange, firstChange)
        end1 == Min(Len(ops) - 1, ext.hunkEnd)
        end2 == IF ext.lastChange + ctx > end1
                THEN Min(Len(ops) - 1, ext.lastChange + ctx)
                ELSE end1
        start1 == IF start0 > end2 THEN end2 ELSE start0
    IN  [hunkStart |-> start1, hunkEnd |-> end2]

FirstPositive(ns) ==
    IF \E k \in 1..Len(ns) : ns[k] > 0
    THEN ns[CHOOSE k \in 1..Len(ns) :
                /\ ns[k] > 0
                /\ \A m \in 1..(k - 1) : ns[m] <= 0]
    ELSE 1

HunkLine(op) ==
    IF op.type = "remove" THEN <<"-">> \o op.line
    ELSE IF op.type = "add" THEN <<"+">> \o op.line
    ELSE <<" ">> \o op.line

OldCountOnlyRemoves(hunkOps) ==
    Len(SelectSeq(hunkOps, LAMBDA op : op.type = "remove"))

OldCount(hunkOps) == Len(SelectSeq(hunkOps, LAMBDA op : op.type # "add"))

NewCount(hunkOps) == Len(SelectSeq(hunkOps, LAMBDA op : op.type # "remove"))

\* The hunk pushed for the window [hunkStart, hunkEnd].  hunkStart and
\* hunkEnd are the loop's local variables, kept with the hunk they produced.
MakeHunk(ops, window) ==
    LET hunkOps == SubSeq(ops, window.hunkStart + 1, window.hunkEnd + 1)
    IN  [oldStart |-> FirstPositive([k \in 1..Len(hunkOps) |-> hunkOps[k].oldLine]),
         oldCount |-> OldCount(hunkOps),
         newStart |-> FirstPositive([k \in 1..Len(hunkOps) |-> hunkOps[k].newLine]),
         newCount |-> NewCount(hunkOps),
         lines |-> [k \in 1..Len(hunkOps) |-> HunkLine(hunkOps[k])],
         hunkStart |-> window.hunkStart,
         hunkEnd |-> window.hunkEnd]

\* The outer while loop, from cursor on.
RECURSIVE HunksFrom(_, _, _)
HunksFrom(ops, ctx, cursor) ==
    IF cursor >= Len(ops) THEN <<>>
    ELSE LET firstChange == FirstChange(ops, cursor)
         IN  IF firstChange < 0 THEN <<>>
             ELSE LET window == HunkWindow(ops, ctx, cursor, firstChange)
                  IN  <<MakeHunk(ops, window)>>
                      \o HunksFrom(ops, ctx, window.hunkEnd + 1)

BuildDiffHunks(ops, ctx) == HunksFrom(ops, ctx, 0)

(***************************************************************************)
(* diffInlineSegments                                                      *)
(***************************************************************************)

\* The runs of s: maximal runs of white space and maximal runs of other
\* characters, in order, from character k on with the run cur in progress.
RECURSIVE TokensFrom(_, _, _)
TokensFrom(s, k, cur) ==
    IF k > Len(s) THEN (IF cur = <<>> THEN <<>> ELSE <<cur>>)
    ELSE IF cur = <<>> \/ IsSpace(cur[1]) = IsSpace(s[k])
         THEN TokensFrom(s, k + 1, Append(cur, s[k]))
    ELSE <<cur>> \o TokensFrom(s, k + 1, <<s[k]>>)

\* split(/\s+/), without the capturing group: the white space is lost.
TokenizeDropSpace(s) ==
    SelectSeq(TokensFrom(s, 1, <<>>), LAMBDA t : ~IsSpace(t[1]))

\* split(/(\s+)/).filter((part) => part.length > 0)
Tokenize(s) == TokensFrom(s, 1, <<>>)

Part(text, changed) == [text |-> text, changed |-> changed]

\* The three while loops of diffInlineSegments from the position (i, j),
\* returning the parts pushed on each side from there on.
RECURSIVE WalkTokens(_, _, _, _, _)
WalkTokens(leftTokens, rightTokens, matrix, i, j) ==
    IF i < Len(leftTokens) /\ j < Len(rightTokens) THEN
        IF leftTokens[i + 1] = rightTokens[j + 1]
        THEN LET rest == WalkTokens(leftTokens, rightTokens, matrix, i + 1, j + 1)
             IN  [left |-> <<Part(leftTokens[i + 1], FALSE)>> \o rest.left,
                  right |-> <<Part(rightTokens[j + 1], FALSE)>> \o rest.right]
        ELSE IF matrix[i + 1, j] >= matrix[i, j + 1]
        THEN LET rest == WalkTokens(leftTokens, rightTokens, matrix, i + 1, j)
             IN  [left |-> <<Part(leftTokens[i + 1], TRUE)>> \o rest.left,
                  right |-> rest.right]
        ELSE LET rest == WalkTokens(leftTokens, rightTokens, matrix, i, j + 1)
             IN  [left |-> rest.left,
                  right |-> <<Part(rightTokens[j + 1], TRUE)>> \o rest.right]
    ELSE IF i < Len(leftTokens)
    THEN LET rest == WalkTokens(leftTokens, rightTokens, matrix, i + 1, j)
         IN  [left |-> <<Part(leftTokens[i + 1], TRUE)>> \o rest.left,
              right |-> rest.right]
    ELSE IF j < Len(rightTokens)
    THEN LET rest == WalkTokens(leftTokens, rightTokens, matrix, i, j + 1)
         IN  [left |-> rest.left,
              right |-> <<Part(rightTokens[j + 1], TRUE)>> \o rest.right]
    ELSE [left |-> <<>>, right |-> <<>>]

DiffInlineSegments(l, r) ==
    LET leftTokens == Tokenize(l)
        rightTokens == Tokenize(r)
    IN  WalkTokens(leftTokens, rightTokens,
                   SuffixLcsMatrix(leftTokens, rightTokens), 0, 0)

(***************************************************************************)
(* JSON values and the accessors of a parsed record                        *)
(***************************************************************************)
JString(s) == [t |-> "string", v |-> s]

JObject(fields) == [t |-> "object", v |-> fields]

JUndefined == [t |-> "undefined"]

\* A message text that JSON.parse rejects.
JInvalid == [t |-> "invalid"]

\* record.key, and record?.key when record is no object
Prop(record, key) ==
    IF record.t = "object" /\ key \in DOMAIN record.v THEN record.v[key]
    ELSE JUndefined

AsObject(value) == IF value.t = "object" THEN value ELSE JUndefined

TryParseJsonRecord(message) == AsObject(message)

\* A reading that takes the empty string for no string.
AsStringNonEmpty(value) ==
    IF value.t = "string" /\ value.v # <<>> THEN value.v ELSE Null

AsString(value) == IF value.t = "string" THEN value.v ELSE Null

AsNonEmptyString(value) ==
    IF value.t # "string" THEN Null
    ELSE LET trimmed == Trim(value.v)
         IN  IF Len(trimmed) > 0 THEN trimmed ELSE Null

\* a ?? b ?? ... ?? null
RECURSIVE FirstNonNull(_)
FirstNonNull(values) ==
    IF values = <<>> THEN Null
    ELSE IF values[1] # Null THEN values[1]
    ELSE FirstNonNull(Tail(values))

UpperCase == <<"A", "B", "C", "D", "E", "F", "G", "H", "I", "J", "K", "L", "M",
               "N", "O", "P", "Q", "R", "S", "T", "U", "V", "W", "X", "Y", "Z">>

LowerCase == <<"a", "b", "c", "d", "e", "f", "g", "h", "i", "j", "k", "l", "m",
               "n", "o", "p", "q", "r", "s", "t", "u", "v", "w", "x", "y", "z">>

\* String.prototype.toLowerCase
ToLowerCase(s) ==
    [k \in 1..Len(s) |->
        IF \E u \in 1..26 : UpperCase[u] = s[k]
        THEN LowerCase[CHOOSE u \in 1..26 : UpperCase[u] = s[k]]
        ELSE s[k]]

(***************************************************************************)
(* The apply-patch format                                                  *)
(***************************************************************************)
BeginPatchMarker == <<"*", "*", "*", " ", "B", "e", "g", "i", "n", " ", "P", "a", "t", "c", "h">>

EndPatchMarker == <<"*", "*", "*", " ", "E", "n", "d", " ", "P", "a", "t", "c", "h">>

EndOfFileMarker == <<"*", "*", "*", " ", "E", "n", "d", " ", "o", "f", " ", "F", "i", "l", "e">>

UpdateFilePrefix == <<"*", "*", "*", " ", "U", "p", "d", "a", "t", "e", " ", "F", "i", "l", "e", ":", " ">>

AddFilePrefix == <<"*", "*", "*", " ", "A", "d", "d", " ", "F", "i", "l", "e", ":", " ">>

DeleteFilePrefix == <<"*", "*", "*", " ", "D", "e", "l", "e", "t", "e", " ", "F", "i", "l", "e", ":", " ">>

MoveToPrefix == <<"*", "*", "*", " ", "M", "o", "v", "e", " ", "t", "o", ":", " ">>

DiffGitPrefix == <<"d", "i", "f", "f", " ", "-", "-", "g", "i", "t">>

IndexPrefix == <<"i", "n", "d", "e", "x", " ">>

OldHeaderPrefix == <<"-", "-", "-", " ">>

NewHeaderPrefix == <<"+", "+", "+", " ">>

DevNull == <<"/", "d", "e", "v", "/", "n", "u", "l", "l">>

ApplyPatchName == <<"a", "p", "p", "l", "y", "_", "p", "a", "t", "c", "h">>

LooksLikeApplyPatchPayload(parsed, payload) ==
    LET named == SelectSeq(<<AsNonEmptyString(Prop(parsed, "name")),
                             AsNonEmptyString(Prop(parsed, "tool")),
                             AsNonEmptyString(Prop(parsed, "type")),
                             AsNonEmptyString(Prop(payload, "operation")),
                             AsNonEmptyString(Prop(payload, "mode"))>>,
                           LAMBDA value : value # Null /\ value # <<>>)
        normalized == ToLowerCase(JoinSpace(named))
        marked(value) == value # Null /\ Includes(value, BeginPatchMarker)
    IN  \/ Includes(normalized, ApplyPatchName)
        \/ marked(AsNonEmptyString(Prop(parsed, "input")))
        \/ marked(AsNonEmptyString(Prop(payload, "input")))
        \/ marked(AsNonEmptyString(Prop(parsed, "arguments")))

\* path.trim() || null
TrimmedOrNull(path) == IF Trim(path) = <<>> THEN Null ELSE Trim(path)

IsFileDirective(line) ==
    \/ StartsWith(line, UpdateFilePrefix)
    \/ StartsWith(line, AddFilePrefix)
    \/ StartsWith(line, DeleteFilePrefix)

DirectivePath(line) ==
    IF StartsWith(line, UpdateFilePrefix) THEN Slice(line, Len(UpdateFilePrefix))
    ELSE IF StartsWith(line, AddFilePrefix) THEN Slice(line, Len(AddFilePrefix))
    ELSE Slice(line, Len(DeleteFilePrefix))

\* The for loop of extractApplyPatchFirstPath, from line k on.
RECURSIVE FirstPathFrom(_, _)
FirstPathFrom(lines, k) ==
    IF k > Len(lines) THEN Null
    ELSE IF IsFileDirective(lines[k]) THEN TrimmedOrNull(DirectivePath(lines[k]))
    ELSE FirstPathFrom(lines, k + 1)

\* The loop returning the path of an Update File directive only.
ExtractApplyPatchFirstPathUpdateOnly(patchText) ==
    IF patchText = Null \/ patchText = <<>> THEN Null
    ELSE LET lines == SplitLines(patchText)
             updates == {k \in 1..Len(lines) : StartsWith(lines[k], UpdateFilePrefix)}
         IN  IF updates = {} THEN Null
             ELSE TrimmedOrNull(DirectivePath(
                      lines[CHOOSE k \in updates : \A m \in updates : k <= m]))

ExtractApplyPatchFirstPath(patchText) ==
    IF patchText = Null \/ patchText = <<>> THEN Null
    ELSE FirstPathFrom(SplitLines(patchText), 1)

\* The local variables of convertApplyPatchToUnifiedDiff before its loop.
ConvertStart ==
    [output |-> <<>>,
     headerDiffIndex |-> -1,
     headerOldIndex |-> -1,
     headerNewIndex |-> -1,
     oldPath |-> <<>>,
     newPath |-> <<>>,
     hasDiffRows |-> FALSE]

OldPathOf(mode, normalized) ==
    IF mode = "add" THEN DevNull ELSE <<"a", "/">> \o normalized

NewPathOf(mode, normalized) ==
    IF mode = "delete" THEN DevNull ELSE <<"b", "/">> \o normalized

\* The headers pushed with the old and new paths exchanged.
FileHeadersSwapped(oldPath, newPath) ==
    <<DiffGitPrefix \o <<" ">> \o oldPath \o <<" ">> \o newPath,
      OldHeaderPrefix \o newPath,
      NewHeaderPrefix \o oldPath>>

\* The three lines startFile pushes.
FileHeaders(oldPath, newPath) ==
    <<DiffGitPrefix \o <<" ">> \o oldPath \o <<" ">> \o newPath,
      OldHeaderPrefix \o oldPath,
      NewHeaderPrefix \o newPath>>

\* startFile(mode, path)
StartFile(st, mode, path) ==
    LET normalized == Trim(path)
    IN  IF normalized = <<>> THEN st
        ELSE [st EXCEPT
                 !.oldPath = OldPathOf(mode, normalized),
                 !.newPath = NewPathOf(mode, normalized),
                 !.headerDiffIndex = Len(st.output),
                 !.headerOldIndex = Len(st.output) + 1,
                 !.headerNewIndex = Len(st.output) + 2,
                 !.output = st.output \o FileHeaders(OldPathOf(mode, normalized),
                                                     NewPathOf(mode, normalized))]

\* A move that rewrites the "--- " line of the file as well.
MoveToAllHeaders(st, line) ==
    LET destination == Trim(Slice(line, Len(MoveToPrefix)))
        newPath == <<"b", "/">> \o destination
    IN  IF destination = <<>> THEN st
        ELSE [st EXCEPT
                 !.newPath = newPath,
                 !.output = [n \in 1..Len(st.output) |->
                     IF n = st.headerDiffIndex + 1
                     THEN DiffGitPrefix \o <<" ">> \o st.oldPath \o <<" ">> \o newPath
                     ELSE IF n = st.headerOldIndex + 1 THEN OldHeaderPrefix \o newPath
                     ELSE IF n = st.headerNewIndex + 1 THEN NewHeaderPrefix \o newPath
                     ELSE st.output[n]]]

\* The "*** Move to: " branch of the loop.
MoveTo(st, line) ==
    LET destination == Trim(Slice(line, Len(MoveToPrefix)))
        newPath == <<"b", "/">> \o destination
        withDiff == IF st.headerDiffIndex >= 0
                    THEN [st.output EXCEPT ![st.headerDiffIndex + 1] =
                              DiffGitPrefix \o <<" ">> \o st.oldPath \o <<" ">> \o newPath]
                    ELSE st.output
        withNew == IF st.headerNewIndex >= 0
                   THEN [withDiff EXCEPT ![st.headerNewIndex + 1] =
                             NewHeaderPrefix \o newPath]
                   ELSE withDiff
    IN  IF destination = <<>> THEN st
        ELSE [st EXCEPT !.newPath = newPath, !.output = withNew]

\* A test that does not take a line starting with a space for a body line.
IsHunkBodyLineNoContext(line) ==
    \/ StartsWith(line, <<"@", "@">>)
    \/ StartsWith(line, <<"+">>)
    \/ StartsWith(line, <<"-">>)

IsHunkBodyLine(line) ==
    \/ StartsWith(line, <<"@", "@">>)
    \/ StartsWith(line, <<"+">>)
    \/ StartsWith(line, <<"-">>)
    \/ StartsWith(line, <<" ">>)

\* One pass of the for loop of convertApplyPatchToUnifiedDiff.
ConvertLine(st, line) ==
    IF line = BeginPatchMarker \/ line = EndPatchMarker \/ line = EndOfFileMarker
    THEN st
    ELSE IF StartsWith(line, UpdateFilePrefix)
    THEN StartFile(st, "update", Slice(line, Len(UpdateFilePrefix)))
    ELSE IF StartsWith(line, AddFilePrefix)
    THEN StartFile(st, "add", Slice(line, Len(AddFilePrefix)))
    ELSE IF StartsWith(line, DeleteFilePrefix)
    THEN StartFile(st, "delete", Slice(line, Len(DeleteFilePrefix)))
    ELSE IF StartsWith(line, MoveToPrefix)
    THEN MoveTo(st, line)
    ELSE IF IsHunkBodyLine(line)
    THEN [st EXCEPT !.output = Append(st.output, line), !.hasDiffRows = TRUE]
    ELSE st

RECURSIVE ConvertLines(_, _, _)
ConvertLines(lines, k, st) ==
    IF k > Len(lines) THEN st
    ELSE ConvertLines(lines, k + 1, ConvertLine(st, lines[k]))

\* The locals of convertApplyPatchToUnifiedDiff after its loop; patchText is
\* a non-empty string.
ConvertRun(patchText) == ConvertLines(SplitLines(patchText), 1, ConvertStart)

\* The return statement without the hasDiffRows test.
ConvertResultAnyOutput(st) ==
    IF Len(st.output) > 0 THEN JoinLines(st.output) ELSE Null

\* The return statement of convertApplyPatchToUnifiedDiff.
ConvertResult(st) ==
    IF st.hasDiffRows /\ Len(st.output) > 0 THEN JoinLines(st.output) ELSE Null

ConvertApplyPatchToUnifiedDiff(patchText) ==
    IF patchText = Null \/ patchText = <<>> THEN Null
    ELSE ConvertResult(ConvertRun(patchText))

(***************************************************************************)
(* parseToolEditPayload                                                    *)
(***************************************************************************)
NoEdit == [parsed |-> FALSE]

\* The text handed to the apply-patch functions.
ApplyPatchInput(parsed, payload) ==
    FirstNonNull(<<AsNonEmptyString(Prop(parsed, "input")),
                   AsNonEmptyString(Prop(payload, "input")),
                   AsNonEmptyString(Prop(parsed, "arguments"))>>)

\* The object the fields are read from: input ?? args ?? parsed.
PayloadOf(parsed) ==
    LET input == AsObject(Prop(parsed, "input"))
        args == AsObject(Prop(parsed, "args"))
    IN  IF input.t = "object" THEN input
        ELSE IF args.t = "object" THEN args
        ELSE parsed

\* The conversion attempted whatever the payload looks like.
NormalizedDiffAlwaysConvert(parsed, payload, diff) ==
    IF diff # Null THEN diff
    ELSE ConvertApplyPatchToUnifiedDiff(ApplyPatchInput(parsed, payload))

NormalizedDiff(parsed, payload, diff) ==
    IF diff # Null THEN diff
    ELSE IF LooksLikeApplyPatchPayload(parsed, payload)
    THEN ConvertApplyPatchToUnifiedDiff(ApplyPatchInput(parsed, payload))
    ELSE Null

ParseToolEditPayload(message) ==
    LET parsed == TryParseJsonRecord(message)
        payload == PayloadOf(parsed)
        filePath == FirstNonNull(<<AsNonEmptyString(Prop(payload, "file_path")),
                                   AsNonEmptyString(Prop(payload, "path")),
                                   AsNonEmptyString(Prop(payload, "file")),
                                   AsNonEmptyString(Prop(parsed, "file_path")),
                                   AsNonEmptyString(Prop(parsed, "path"))>>)
        oldText == FirstNonNull(<<AsString(Prop(payload, "old_string")),
                                  AsString(Prop(payload, "oldText")),
                                  AsString(Prop(payload, "before")),
                                  AsString(Prop(parsed, "old_string"))>>)
        newText == FirstNonNull(<<AsString(Prop(payload, "new_string")),
                                  AsString(Prop(payload, "newText")),
                                  AsString(Prop(payload, "after")),
                                  AsString(Prop(payload, "content")),
                                  AsString(Prop(payload, "text")),
                                  AsString(Prop(payload, "write_content")),
                                  AsString(Prop(payload, "new_content")),
                                  AsString(Prop(parsed, "new_string"))>>)
        diff == FirstNonNull(<<AsNonEmptyString(Prop(payload, "diff")),
                               AsNonEmptyString(Prop(payload, "patch")),
                               AsNonEmptyString(Prop(parsed, "diff")),
                               AsNonEmptyString(Prop(parsed, "patch"))>>)
        applyPatchInput == ApplyPatchInput(parsed, payload)
    IN  IF parsed.t # "object" THEN NoEdit
        ELSE [parsed |-> TRUE,
              filePath |-> IF filePath # Null THEN filePath
                           ELSE ExtractApplyPatchFirstPath(applyPatchInput),
              oldText |-> oldText,
              newText |-> newText,
              diff |-> NormalizedDiff(parsed, payload, diff)]

(***************************************************************************)
(* parseToolInvocationPayload                                              *)
(***************************************************************************)
NoInvocation == [parsed |-> FALSE]

\* The members of a set of indices, in increasing order.
SortedIndices(S) ==
    [n \in 1..Cardinality(S) |->
        CHOOSE k \in S : Cardinality({m \in S : m <= k}) = n]

\* String.prototype.replace(/[class]+/g, " "): every run of characters of the
\* class becomes one space.
ReplaceRuns(s, class) ==
    LET kept == {k \in 1..Len(s) :
                     s[k] \notin class \/ k = 1 \/ s[k - 1] \notin class}
        order == SortedIndices(kept)
    IN  [n \in 1..Len(order) |->
            IF s[order[n]] \in class THEN " " ELSE s[order[n]]]

\* \w of a regular expression
IsWordChar(c) ==
    \/ \E u \in 1..26 : UpperCase[u] = c \/ LowerCase[u] = c
    \/ IsDigit(c)
    \/ c = "_"

ToUpperChar(c) ==
    IF \E u \in 1..26 : LowerCase[u] = c
    THEN UpperCase[CHOOSE u \in 1..26 : LowerCase[u] = c]
    ELSE c

\* String.prototype.replace(/\b\w/g, toUpperCase): the first character of
\* every word becomes upper case.
CapitalizeWords(s) ==
    [k \in 1..Len(s) |->
        IF IsWordChar(s[k]) /\ (k = 1 \/ ~IsWordChar(s[k - 1]))
        THEN ToUpperChar(s[k]) ELSE s[k]]

\* The table mapped of prettyToolName: identifier, label.
PrettyNames ==
    <<<<<<"e", "x", "e", "c", "_", "c", "o", "m", "m", "a", "n", "d">>,
        <<"E", "x", "e", "c", "u", "t", "e", " ", "C", "o", "m", "m", "a", "n", "d">>>>,
      <<<<"r", "u", "n", "_", "c", "o", "m", "m", "a", "n", "d">>,
        <<"E", "x", "e", "c", "u", "t", "e", " ", "C", "o", "m", "m", "a", "n", "d">>>>,
      <<<<"c", "o", "m", "m", "a", "n", "d">>,
        <<"E", "x", "e", "c", "u", "t", "e", " ", "C", "o", "m", "m", "a", "n", "d">>>>,
      <<<<"g", "r", "e", "p">>,
        <<"G", "r", "e", "p">>>>,
      <<<<"s", "e", "a", "r", "c", "h">>,
        <<"S", "e", "a", "r", "c", "h">>>>,
      <<<<"r", "e", "a", "d">>,
        <<"R", "e", "a", "d">>>>,
      <<<<"e", "d", "i", "t">>,
        <<"E", "d", "i", "t">>>>,
      <<<<"a", "p", "p", "l", "y", "_", "p", "a", "t", "c", "h">>,
        <<"A", "p", "p", "l", "y", " ", "P", "a", "t", "c", "h">>>>,
      <<<<"w", "r", "i", "t", "e">>,
        <<"W", "r", "i", "t", "e">>>>,
      <<<<"w", "r", "i", "t", "e", "_", "f", "i", "l", "e">>,
        <<"W", "r", "i", "t", "e", " ", "F", "i", "l", "e">>>>,
      <<<<"s", "t", "r", "_", "r", "e", "p", "l", "a", "c", "e">>,
        <<"R", "e", "p", "l", "a", "c", "e", " ", "T", "e", "x", "t">>>>,
      <<<<"m", "u", "l", "t", "i", "_", "e", "d", "i", "t">>,
        <<"M", "u", "l", "t", "i", " ", "E", "d", "i", "t">>>>>>

PrettyToolName(name) ==
    LET normalized == ToLowerCase(Trim(name))
        known == {e \in 1..Len(PrettyNames) : PrettyNames[e][1] = normalized}
    IN  IF known # {} THEN PrettyNames[CHOOSE e \in known : TRUE][2]
        ELSE CapitalizeWords(Trim(ReplaceRuns(ReplaceRuns(normalized, {"_", "-"}),
                                              {" ", "\t", "\n", "\r"})))

\* The substrings that make an operation a write.
WriteHints ==
    {<<"e", "d", "i", "t">>,
     <<"w", "r", "i", "t", "e">>,
     <<"p", "a", "t", "c", "h">>,
     <<"a", "p", "p", "l", "y", "_", "p", "a", "t", "c", "h">>,
     <<"r", "e", "p", "l", "a", "c", "e">>,
     <<"m", "u", "l", "t", "i", "_", "e", "d", "i", "t">>,
     <<"c", "r", "e", "a", "t", "e", "_", "f", "i", "l", "e">>,
     <<"u", "p", "d", "a", "t", "e", "_", "f", "i", "l", "e">>,
     <<"d", "e", "l", "e", "t", "e", "_", "f", "i", "l", "e">>,
     <<"s", "t", "r", "_", "r", "e", "p", "l", "a", "c", "e">>}

LooksLikeWriteOperation(value) ==
    LET normalized == ToLowerCase(value)
    IN  normalized # <<>> /\ \E hint \in WriteHints : Includes(normalized, hint)

\* asObject(record.input) ?? asObject(record.args) ?? asObject(record.arguments)
InputRecordOf(record) ==
    LET input == AsObject(Prop(record, "input"))
        args == AsObject(Prop(record, "args"))
    IN  IF input.t = "object" THEN input
        ELSE IF args.t = "object" THEN args
        ELSE AsObject(Prop(record, "arguments"))

\* The name of the tool: the first of the aliases that holds a string that is
\* not blank.
InvocationName(record) ==
    FirstNonNull(<<AsNonEmptyString(Prop(record, "name")),
                   AsNonEmptyString(Prop(record, "tool_name")),
                   AsNonEmptyString(Prop(record, "tool")),
                   AsNonEmptyString(Prop(AsObject(Prop(record, "functionCall")), "name"))>>)

RawHint(record, name) ==
    JoinSpace(SelectSeq(<<name,
                          AsNonEmptyString(Prop(record, "operation")),
                          AsNonEmptyString(Prop(InputRecordOf(record), "operation"))>>,
                        LAMBDA value : value # Null /\ value # <<>>))

ParseToolInvocationPayload(message) ==
    LET record == TryParseJsonRecord(message)
        name == InvocationName(record)
    IN  IF record.t # "object" THEN NoInvocation
        ELSE [parsed |-> TRUE,
              record |-> record,
              name |-> name,
              prettyName |-> IF name # Null THEN PrettyToolName(name) ELSE Null,
              inputRecord |-> InputRecordOf(record),
              isWrite |-> LooksLikeWriteOperation(RawHint(record, name))]

(***************************************************************************)
(* buildUnifiedDiffFromTextPair                                            *)
(***************************************************************************)
DefaultContext == 2

DefaultHeaderFile == <<"f", "i", "l", "e">>

EmptyHunkHeader == <<"@", "@", " ", "-", "1", ",", "0", " ", "+", "1", ",", "0", " ", "@", "@">>

\* `@@ -${oldStart},${oldCount} +${newStart},${newCount} @@`
HunkHeader(hunk) ==
    <<"@", "@", " ", "-">> \o ToDecimal(hunk.oldStart) \o <<",">> \o ToDecimal(hunk.oldCount)
    \o <<" ", "+">> \o ToDecimal(hunk.newStart) \o <<",">> \o ToDecimal(hunk.newCount)
    \o <<" ", "@", "@">>

RECURSIVE HunkOutput(_)
HunkOutput(hs) ==
    IF hs = <<>> THEN <<>>
    ELSE <<HunkHeader(hs[1])>> \o hs[1].lines \o HunkOutput(Tail(hs))

\* The output with no line pushed when there is no hunk.
UnifiedDiffLinesNoPlaceholder(hs, filePath) ==
    LET headerFile == IF filePath # Null THEN filePath ELSE DefaultHeaderFile
    IN  <<OldHeaderPrefix \o <<"a", "/">> \o headerFile,
          NewHeaderPrefix \o <<"b", "/">> \o headerFile>> \o HunkOutput(hs)

\* The output array of buildUnifiedDiffFromTextPair for the hunks hs.
UnifiedDiffLines(hs, filePath) ==
    LET headerFile == IF filePath # Null THEN filePath ELSE DefaultHeaderFile
        output == <<OldHeaderPrefix \o <<"a", "/">> \o headerFile,
                    NewHeaderPrefix \o <<"b", "/">> \o headerFile>>
    IN  IF Len(hs) = 0 THEN Append(output, EmptyHunkHeader)
        ELSE output \o HunkOutput(hs)

BuildUnifiedDiffFromTextPair(args) ==
    LET olds == SplitLines(args.oldText)
        news == SplitLines(args.newText)
        ops == BuildLineOperations(olds, news)
        hs == BuildDiffHunks(ops, DefaultContext)
    IN  JoinLines(UnifiedDiffLines(hs, args.filePath))

(***************************************************************************)
(* DiffBlock and the code block that may render one                        *)
(***************************************************************************)
IsAddedDiffLine(line) ==
    StartsWith(line, <<"+">>) /\ ~StartsWith(line, NewHeaderPrefix)

\* The test without the exclusion of "--- ".
IsRemovedDiffLineAnyDash(line) == StartsWith(line, <<"-">>)

IsRemovedDiffLine(line) ==
    StartsWith(line, <<"-">>) /\ ~StartsWith(line, OldHeaderPrefix)

\* The index after the longest run of digits of line that starts at index q
\* (1-based); q itself when there is no digit at q.
RECURSIVE DigitsEnd(_, _)
DigitsEnd(line, q) ==
    IF q <= Len(line) /\ IsDigit(line[q]) THEN DigitsEnd(line, q + 1) ELSE q

LiteralAt(line, q, literal) ==
    /\ q + Len(literal) - 1 <= Len(line)
    /\ SubSeq(line, q, q + Len(literal) - 1) = literal

\* The index after (?:,\d+)? tried at q: the group when it matches, q otherwise.
OptionalCountEnd(line, q) ==
    IF LiteralAt(line, q, <<",">>) /\ DigitsEnd(line, q + 1) > q + 1
    THEN DigitsEnd(line, q + 1)
    ELSE q

\* /@@ -(\d+)(?:,\d+)? \+(\d+)(?:,\d+)? @@/ tried at index p of line.
HunkStartMatchAt(line, p) ==
    LET o1 == p + 4
        o2 == DigitsEnd(line, o1)
        o3 == OptionalCountEnd(line, o2)
        n1 == o3 + 2
        n2 == DigitsEnd(line, n1)
        n3 == OptionalCountEnd(line, n2)
    IN  IF /\ LiteralAt(line, p, <<"@", "@", " ", "-">>)
           /\ o2 > o1
           /\ LiteralAt(line, o3, <<" ", "+">>)
           /\ n2 > n1
           /\ LiteralAt(line, n3, <<" ", "@", "@">>)
        THEN [matched |-> TRUE,
              oldLine |-> ToNumber(SubSeq(line, o1, o2 - 1)),
              newLine |-> ToNumber(SubSeq(line, n1, n2 - 1))]
        ELSE [matched |-> FALSE]

\* A parse that finds no hunk header in any line.
HunkStartNever(line) == [matched |-> FALSE]

\* parseDiffHunkStart: the leftmost match of the expression in line.
ParseDiffHunkStart(line) ==
    LET places == {p \in 1..Len(line) : HunkStartMatchAt(line, p).matched}
    IN  IF places = {} THEN [matched |-> FALSE]
        ELSE HunkStartMatchAt(line, CHOOSE p \in places : \A q \in places : p <= q)

\* The blank shown in place of a line number.
Blank == -1

\* An added row that shows the number after the one it was given.
AddRowNextNumber(newLineNumber, content, paired, parts) ==
    [kind |-> "add", oldNumber |-> Blank, newNumber |-> newLineNumber + 1,
     content |-> content, paired |-> paired, parts |-> parts]

\* A removed row that never carries inline parts.
RemoveRowUnpaired(oldLineNumber, content, paired, parts) ==
    [kind |-> "remove", oldNumber |-> oldLineNumber, newNumber |-> Blank,
     content |-> content, paired |-> FALSE, parts |-> <<>>]

MetaRow(line) ==
    [kind |-> "meta", oldNumber |-> Blank, newNumber |-> Blank,
     content |-> line, paired |-> FALSE, parts |-> <<>>]

RemoveRow(oldLineNumber, content, paired, parts) ==
    [kind |-> "remove", oldNumber |-> oldLineNumber, newNumber |-> Blank,
     content |-> content, paired |-> paired, parts |-> parts]

AddRow(newLineNumber, content, paired, parts) ==
    [kind |-> "add", oldNumber |-> Blank, newNumber |-> newLineNumber,
     content |-> content, paired |-> paired, parts |-> parts]

ContextRow(oldLineNumber, newLineNumber, line) ==
    [kind |-> "context", oldNumber |-> oldLineNumber, newNumber |-> newLineNumber,
     content |-> IF StartsWith(line, <<" ">>) THEN Slice(line, 1) ELSE line,
     paired |-> FALSE, parts |-> <<>>]

\* lines[index] ?? ""
LineAt(lines, index) == IF index < Len(lines) THEN lines[index + 1] ELSE <<>>

IsHeaderLine(line) ==
    \/ StartsWith(line, DiffGitPrefix)
    \/ StartsWith(line, IndexPrefix)
    \/ StartsWith(line, OldHeaderPrefix)
    \/ StartsWith(line, NewHeaderPrefix)

\* The while loop of DiffBlock from index on, with the two line counters,
\* returning the rows pushed from there on.
RECURSIVE DiffRowsFrom(_, _, _, _)
DiffRowsFrom(lines, index, oldLineNumber, newLineNumber) ==
    IF index >= Len(lines) THEN <<>>
    ELSE LET line == LineAt(lines, index)
             nextLine == LineAt(lines, index + 1)
         IN  IF StartsWith(line, <<"@", "@">>)
             THEN LET hunkStart == ParseDiffHunkStart(line)
                  IN  <<MetaRow(line)>>
                      \o DiffRowsFrom(lines, index + 1,
                             IF hunkStart.matched THEN hunkStart.oldLine ELSE oldLineNumber,
                             IF hunkStart.matched THEN hunkStart.newLine ELSE newLineNumber)
             ELSE IF IsRemovedDiffLine(line) /\ IsAddedDiffLine(nextLine)
             THEN LET inlineDiff == DiffInlineSegments(Slice(line, 1), Slice(nextLine, 1))
                  IN  <<RemoveRow(oldLineNumber, Null, TRUE, inlineDiff.left),
                        AddRow(newLineNumber, Null, TRUE, inlineDiff.right)>>
                      \o DiffRowsFrom(lines, index + 2, oldLineNumber + 1, newLineNumber + 1)
             ELSE IF IsAddedDiffLine(line)
             THEN <<AddRow(newLineNumber, Slice(line, 1), FALSE, <<>>)>>
                  \o DiffRowsFrom(lines, index + 1, oldLineNumber, newLineNumber + 1)
             ELSE IF IsRemovedDiffLine(line)
             THEN <<RemoveRow(oldLineNumber, Slice(line, 1), FALSE, <<>>)>>
                  \o DiffRowsFrom(lines, index + 1, oldLineNumber + 1, newLineNumber)
             ELSE IF IsHeaderLine(line)
             THEN <<MetaRow(line)>>
                  \o DiffRowsFrom(lines, index + 1, oldLineNumber, newLineNumber)
             ELSE <<ContextRow(oldLineNumber, newLineNumber, line)>>
                  \o DiffRowsFrom(lines, index + 1, oldLineNumber + 1, newLineNumber + 1)

DiffBlock(codeValue) == DiffRowsFrom(SplitLines(codeValue), 0, 1, 1)

DiffLanguage == <<"d", "i", "f", "f">>

PatchLanguage == <<"p", "a", "t", "c", "h">>

TextLanguage == <<"t", "e", "x", "t">>

IsLikelyDiff(language, codeValue) ==
    LET lines == SelectSeq(SplitLines(codeValue), LAMBDA line : Len(line) > 0)
        count(Test(_)) == Len(SelectSeq(lines, Test))
        hasStrongMarker ==
            \E k \in 1..Len(lines) :
                \/ StartsWith(lines[k], <<"@", "@">>)
                \/ StartsWith(lines[k], DiffGitPrefix)
                \/ StartsWith(lines[k], OldHeaderPrefix)
                \/ StartsWith(lines[k], NewHeaderPrefix)
        addedLines == count(IsAddedDiffLine)
        removedLines == count(IsRemovedDiffLine)
        contextLines == count(LAMBDA line : StartsWith(line, <<" ">>))
    IN  IF Includes(language, DiffLanguage) \/ language = PatchLanguage THEN TRUE
        ELSE IF Len(lines) = 0 THEN FALSE
        ELSE IF hasStrongMarker THEN TRUE
        ELSE /\ addedLines > 0
             /\ removedLines > 0
             /\ addedLines + removedLines + contextLines >= 4

EndsWith(s, suffix) ==
    /\ Len(s) >= Len(suffix)
    /\ SubSeq(s, Len(s) - Len(suffix) + 1, Len(s)) = suffix

\* The endings detectLanguageFromFilePath tests, in order, with the language
\* each gives.
LanguageByExtension ==
    <<<<<<".", "t", "s">>, <<"t", "y", "p", "e", "s", "c", "r", "i", "p", "t">>>>,
      <<<<".", "t", "s", "x">>, <<"t", "y", "p", "e", "s", "c", "r", "i", "p", "t">>>>,
      <<<<".", "j", "s">>, <<"j", "a", "v", "a", "s", "c", "r", "i", "p", "t">>>>,
      <<<<".", "j", "s", "x">>, <<"j", "a", "v", "a", "s", "c", "r", "i", "p", "t">>>>,
      <<<<".", "p", "y">>, <<"p", "y", "t", "h", "o", "n">>>>,
      <<<<".", "j", "s", "o", "n">>, <<"j", "s", "o", "n">>>>,
      <<<<".", "c", "s", "s">>, <<"c", "s", "s">>>>,
      <<<<".", "h", "t", "m", "l">>, <<"h", "t", "m", "l">>>>,
      <<<<".", "s", "q", "l">>, <<"s", "q", "l">>>>,
      <<<<".", "m", "d">>, <<"m", "a", "r", "k", "d", "o", "w", "n">>>>,
      <<<<".", "s", "h">>, <<"s", "h", "e", "l", "l">>>>,
      <<<<".", "z", "s", "h">>, <<"s", "h", "e", "l", "l">>>>,
      <<<<".", "b", "a", "s", "h">>, <<"s", "h", "e", "l", "l">>>>>>

DetectLanguageFromFilePath(path) ==
    IF path = Null \/ path = <<>> THEN TextLanguage
    ELSE LET normalized == ToLowerCase(path)
             hits == {k \in 1..Len(LanguageByExtension) :
                          EndsWith(normalized, LanguageByExtension[k][1])}
         IN  IF hits = {} THEN TextLanguage
             ELSE LanguageByExtension[CHOOSE k \in hits : \A m \in hits : k <= m][2]

\* CodeBlock: the rows of the diff block it renders, none for plain code.
CodeBlock(language, codeValue) ==
    IF IsLikelyDiff(ToLowerCase(Trim(language)), codeValue)
    THEN DiffBlock(codeValue)
    ELSE <<>>

(***************************************************************************)
(* App: the state of the window.  Identifiers and status texts are plain   *)
(* strings; a list is a sequence in the order the window shows it.         *)
(***************************************************************************)
CATEGORIES ==
    <<"user", "assistant", "tool_use", "tool_edit", "tool_result", "thinking", "system">>

DEFAULT_MESSAGE_CATEGORIES == <<"user", "assistant">>

\* values.includes(value)
IncludesValue(values, value) == \E k \in 1..Len(values) : values[k] = value

ToggleValue(values, value) ==
    IF IncludesValue(values, value)
    THEN SelectSeq(values, LAMBDA item : item # value)
    ELSE Append(values, value)

\* A toggle that lets the last value go.
ToggleAnyValue(values, value, universe) == ToggleValue(values, value)

ToggleRequiredValue(values, value, universe) ==
    IF IncludesValue(values, value)
    THEN IF Len(values) <= 1 THEN values
         ELSE SelectSeq(values, LAMBDA item : item # value)
    ELSE LET next == Append(values, value)
         IN  IF Len(next) >= Len(universe) THEN universe ELSE next

\* pendingSearchNavigation = null
NoNavigation == [pending |-> FALSE]

\* sessionDetail = null
NoDetail == [loaded |-> FALSE]

\* The state of App once it is mounted and its effects have run with no
\* project and no session selected, before any response has arrived.
AppIdle ==
    /\ searchCategories = DEFAULT_MESSAGE_CATEGORIES
    /\ refreshing = FALSE
    /\ refreshMode = "incremental"
    /\ statusText = ""
    /\ refreshes = <<>>
    /\ projects = <<>>
    /\ selectedProjectId = ""
    /\ sessions = <<>>
    /\ selectedSessionId = ""
    /\ sessionPage = 0
    /\ focusSourceId = ""
    /\ pendingSearchNavigation = NoNavigation
    /\ mainView = "history"
    /\ sessionsRequests = <<>>
    /\ loadSessionsFor = ""
    /\ historyCategories = DEFAULT_MESSAGE_CATEGORIES
    /\ sessionQuery = ""
    /\ sessionDetail = NoDetail
    /\ detailRequests = <<>>
    /\ detailIssued = 0

(***************************************************************************)
(* Direct calls of buildLineOperations and buildDiffHunks                  *)
(***************************************************************************)
Letters == {<<"a">>, <<"b">>}

SeqsUpTo(S, n) == UNION {[1..k -> S] : k \in 0..n}

LineSeqs == SeqsUpTo(Letters, MaxLines)

WordIdle == left = <<>> /\ right = <<>> /\ inline = Null

EditIdle ==
    /\ rawText = JInvalid
    /\ invocation = [parsed |-> FALSE]
    /\ edit = [parsed |-> FALSE]
    /\ diffText = Null
    /\ rows = <<>>
    /\ view = "none"

InitLines ==
    /\ pc = "start"
    /\ AppIdle
    /\ oldLines \in LineSeqs
    /\ newLines \in LineSeqs
    /\ context \in 0..MaxContext
    /\ operations = <<>>
    /\ hunks = <<>>
    /\ WordIdle
    /\ EditIdle

CallBuildLineOperations ==
    /\ pc = "start"
    /\ operations' = BuildLineOperations(oldLines, newLines)
    /\ pc' = "aligned"
    /\ UNCHANGED <<oldLines, newLines, context, hunks, wordVars, editVars, appVars>>

CallBuildDiffHunks ==
    /\ pc = "aligned"
    /\ hunks' = BuildDiffHunks(operations, context)
    /\ pc' = "hunked"
    /\ UNCHANGED <<oldLines, newLines, context, operations, wordVars, editVars, appVars>>

NextLines == CallBuildLineOperations \/ CallBuildDiffHunks

SpecLines == InitLines /\ [][NextLines]_vars

(***************************************************************************)
(* Direct calls of diffInlineSegments                                      *)
(***************************************************************************)
WordChars == {"a", "b", " "}

LineIdle ==
    /\ oldLines = <<>>
    /\ newLines = <<>>
    /\ context = 0
    /\ operations = <<>>
    /\ hunks = <<>>

InitWords ==
    /\ pc = "start"
    /\ AppIdle
    /\ left \in SeqsUpTo(WordChars, MaxChars)
    /\ right \in SeqsUpTo(WordChars, MaxChars)
    /\ inline = Null
    /\ LineIdle
    /\ EditIdle

CallDiffInlineSegments ==
    /\ pc = "start"
    /\ inline' = DiffInlineSegments(left, right)
    /\ pc' = "segmented"
    /\ UNCHANGED <<left, right, lineVars, editVars, appVars>>

NextWords == CallDiffInlineSegments

SpecWords == InitWords /\ [][NextWords]_vars

(***************************************************************************)
(* ToolEditContent: the messages rendered                                  *)
(***************************************************************************)
NoFields == [key \in {} |-> JUndefined]

PatchLines ==
    {<<"*", "*", "*", " ", "B", "e", "g", "i", "n", " ", "P", "a", "t", "c", "h">>,
     <<"*", "*", "*", " ", "U", "p", "d", "a", "t", "e", " ", "F", "i", "l", "e", ":", " ", "a">>,
     <<"*", "*", "*", " ", "A", "d", "d", " ", "F", "i", "l", "e", ":", " ", "b">>,
     <<"*", "*", "*", " ", "D", "e", "l", "e", "t", "e", " ", "F", "i", "l", "e", ":", " ", "a">>,
     <<"*", "*", "*", " ", "D", "e", "l", "e", "t", "e", " ", "F", "i", "l", "e", ":", " ", " ">>,
     <<"*", "*", "*", " ", "M", "o", "v", "e", " ", "t", "o", ":", " ", "c">>,
     <<"@", "@", " ", "-", "3", " ", "+", "5", " ", "@", "@">>,
     <<"+", "x">>,
     <<"-", "y">>,
     <<" ", "c">>,
     <<"j", "u", "n", "k">>}

PatchTexts == {JoinLines(ls) : ls \in SeqsUpTo(PatchLines, MaxPatchLines)}

ShortPatchTexts == {JoinLines(ls) : ls \in SeqsUpTo(PatchLines, 1)}

\* The lines that end a patch or a file, the empty line, and a directive and
\* a body line to stand between them.
ClosingLines ==
    {<<"*", "*", "*", " ", "E", "n", "d", " ", "P", "a", "t", "c", "h">>,
     <<"*", "*", "*", " ", "E", "n", "d", " ", "o", "f", " ", "F", "i", "l", "e">>,
     <<>>,
     <<"*", "*", "*", " ", "U", "p", "d", "a", "t", "e", " ", "F", "i", "l", "e", ":", " ", "a">>,
     <<"+", "x">>}

ClosingTexts == {JoinLines(ls) : ls \in SeqsUpTo(ClosingLines, MaxPatchLines)}

\* The tool names of the messages; Null stands for a record with no name.
ToolNames == {Null, <<"A", "p", "p", "l", "y", "_", "P", "a", "t", "c", "h">>,
              <<"s", "h", "e", "l", "l">>}

\* The tool names of the records with the longer inputs: a record with no
\* name is handled as one whose name does not hold apply_patch.
DeclaredNames == ToolNames \ {Null}

NameField(name) == IF name = Null THEN NoFields ELSE "name" :> JString(name)

SomePath == <<"f", ".", "t", "s">>

SomeDiff == <<"-", "a", "\n", "+", "b">>

\* A record that declares the tool under one of the other keys a name is
\* read from.
DeclaredUnder(key) ==
    IF key = "functionCall"
    THEN "functionCall" :> JObject("name" :> JString(ApplyPatchName))
    ELSE key :> JString(ApplyPatchName)

DeclaringKeys == {"tool_name", "tool", "type", "operation", "mode", "functionCall"}

\* Records carrying an apply-patch text, or any other text, as their input.
PatchMessages ==
    {JObject(NameField(name) @@ ("input" :> JString(patch))) :
        name \in DeclaredNames, patch \in PatchTexts}
    \cup {JObject(NameField(ApplyPatchName) @@ ("input" :> JString(patch))) :
        patch \in ClosingTexts}
    \cup {JObject(DeclaredUnder(key) @@ ("input" :> JString(patch))) :
        key \in DeclaringKeys, patch \in ShortPatchTexts}
    \cup {JObject(NameField(name) @@ ("arguments" :> JString(patch))) :
        name \in ToolNames, patch \in ShortPatchTexts}
    \cup {JObject(NameField(name) @@ ("input" :> JObject("input" :> JString(patch)))) :
        name \in ToolNames, patch \in ShortPatchTexts}
    \cup {JObject(NameField(name) @@ ("path" :> JString(SomePath))
                  @@ ("input" :> JString(patch))) :
        name \in ToolNames, patch \in ShortPatchTexts}
    \cup {JObject(NameField(name) @@ ("diff" :> JString(SomeDiff))
                  @@ ("input" :> JString(patch))) :
        name \in ToolNames, patch \in ShortPatchTexts}

PlainTexts == {JoinLines(ls) : ls \in SeqsUpTo(Letters, MaxTextLines)}

MarkedLines == {<<"a">>, <<"-", "-", " ", "a">>, <<"+", "+", " ", "a">>}

MarkedTexts == {JoinLines(ls) : ls \in SeqsUpTo(MarkedLines, MaxMarkedLines)}

ShortTexts == {JoinLines(ls) : ls \in SeqsUpTo(Letters, 1)}

\* Records carrying an old and a new text.
TextPairMessages ==
    {JObject(("old_string" :> JString(old)) @@ ("new_string" :> JString(new))) :
        old \in PlainTexts, new \in PlainTexts}
    \cup {JObject(("old_string" :> JString(old)) @@ ("new_string" :> JString(new))) :
        old \in MarkedTexts, new \in MarkedTexts}
    \cup {JObject(("file_path" :> JString(SomePath)) @@ ("old_string" :> JString(old))
                  @@ ("new_string" :> JString(new))) :
        old \in ShortTexts, new \in ShortTexts}

\* Records carrying only the text written, records carrying nothing to show,
\* and texts that are no JSON record.
OtherMessages ==
    {JObject("content" :> JString(new)) : new \in ShortTexts \cup {SomeDiff}}
    \cup {JObject(("file_path" :> JString(SomePath)) @@ ("content" :> JString(new))) :
        new \in ShortTexts}
    \cup {JObject(NameField(name)) : name \in ToolNames}
    \cup {JInvalid, JString(<<"a">>)}

Init ==
    /\ pc = "start"
    /\ AppIdle
    /\ rawText \in PatchMessages \cup TextPairMessages \cup OtherMessages
    /\ invocation = NoInvocation
    /\ edit = NoEdit
    /\ diffText = Null
    /\ rows = <<>>
    /\ view = "none"
    /\ LineIdle
    /\ WordIdle

Truthy(value) == value # Null /\ value # <<>>

ShowsPayloadDiff(parsed) ==
    parsed.parsed /\ Truthy(parsed.diff) /\ IsLikelyDiff(DiffLanguage, parsed.diff)

ShowsTextPair(parsed) ==
    /\ parsed.parsed
    /\ ~ShowsPayloadDiff(parsed)
    /\ parsed.oldText # Null
    /\ parsed.newText # Null

ShowsWrittenContent(parsed) ==
    /\ parsed.parsed
    /\ ~ShowsPayloadDiff(parsed)
    /\ ~ShowsTextPair(parsed)
    /\ parsed.newText # Null

\* ToolEditContent, first statement: the call of parseToolEditPayload.
CallParseToolEditPayload ==
    /\ pc = "start"
    /\ edit' = ParseToolEditPayload(rawText)
    /\ pc' = "parsed"
    /\ UNCHANGED <<rawText, invocation, diffText, rows, view, lineVars, wordVars, appVars>>

\* ToolEditContent of a text that is no JSON record: the text is shown as is.
RenderUnparsed ==
    /\ pc = "parsed"
    /\ ~edit.parsed
    /\ view' = "unparsed"
    /\ pc' = "rendered"
    /\ UNCHANGED <<rawText, invocation, edit, diffText, rows, lineVars, wordVars, appVars>>

\* ToolEditContent of a record with a diff: the diff block of parsed.diff.
RenderPayloadDiff ==
    /\ pc = "parsed"
    /\ ShowsPayloadDiff(edit)
    /\ diffText' = edit.diff
    /\ rows' = DiffBlock(edit.diff)
    /\ view' = "diff"
    /\ pc' = "rendered"
    /\ UNCHANGED <<rawText, invocation, edit, lineVars, wordVars, appVars>>

\* ToolEditContent of a record with an old and a new text: the diff block of
\* buildUnifiedDiffFromTextPair, whose local values are kept in oldLines,
\* newLines, operations and hunks.
RenderTextPair ==
    /\ pc = "parsed"
    /\ ShowsTextPair(edit)
    /\ oldLines' = SplitLines(edit.oldText)
    /\ newLines' = SplitLines(edit.newText)
    /\ context' = DefaultContext
    /\ operations' = BuildLineOperations(oldLines', newLines')
    /\ hunks' = BuildDiffHunks(operations', context')
    /\ diffText' = BuildUnifiedDiffFromTextPair(
                       [oldText |-> edit.oldText, newText |-> edit.newText,
                        filePath |-> edit.filePath])
    /\ rows' = DiffBlock(diffText')
    /\ view' = "pair"
    /\ pc' = "rendered"
    /\ UNCHANGED <<rawText, invocation, edit, wordVars, appVars>>

\* ToolEditContent of a record with a new text only: the written content in
\* a code block.
RenderWrittenContent ==
    /\ pc = "parsed"
    /\ ShowsWrittenContent(edit)
    /\ rows' = CodeBlock(DetectLanguageFromFilePath(edit.filePath), edit.newText)
    /\ view' = "written"
    /\ pc' = "rendered"
    /\ UNCHANGED <<rawText, invocation, edit, diffText, lineVars, wordVars, appVars>>

\* ToolEditContent of a record with nothing to show: the formatted JSON.
RenderJson ==
    /\ pc = "parsed"
    /\ edit.parsed
    /\ ~ShowsPayloadDiff(edit)
    /\ ~ShowsTextPair(edit)
    /\ ~ShowsWrittenContent(edit)
    /\ view' = "json"
    /\ pc' = "rendered"
    /\ UNCHANGED <<rawText, invocation, edit, diffText, rows, lineVars, wordVars, appVars>>

Next ==
    \/ CallParseToolEditPayload
    \/ RenderUnparsed
    \/ RenderPayloadDiff
    \/ RenderTextPair
    \/ RenderWrittenContent
    \/ RenderJson

Spec == Init /\ [][Next]_vars

(***************************************************************************)
(* Direct calls of parseToolInvocationPayload and parseToolEditPayload on  *)
(* records that hold a field under several of its keys                     *)
(***************************************************************************)
MaxFilled == 3       \* most keys of one field that a record holds

\* A place a field is read from: a key of the payload object (input ?? args
\* ?? the record), of the record itself, or of its functionCall object.
Slot(level, key) == [level |-> level, key |-> key]

NameSlots ==
    <<Slot("top", "name"), Slot("top", "tool_name"), Slot("top", "tool"),
      Slot("functionCall", "name")>>

FilePathSlots ==
    <<Slot("payload", "file_path"), Slot("payload", "path"), Slot("payload", "file"),
      Slot("top", "file_path"), Slot("top", "path")>>

OldTextSlots ==
    <<Slot("payload", "old_string"), Slot("payload", "oldText"),
      Slot("payload", "before"), Slot("top", "old_string")>>

NewTextSlots ==
    <<Slot("payload", "new_string"), Slot("payload", "newText"),
      Slot("payload", "after"), Slot("payload", "content"), Slot("payload", "text"),
      Slot("payload", "write_content"), Slot("payload", "new_content"),
      Slot("top", "new_string")>>

DiffSlots ==
    <<Slot("payload", "diff"), Slot("payload", "patch"),
      Slot("top", "diff"), Slot("top", "patch")>>

\* What a key holds: the empty string, a blank string, a value that is no
\* string, or a text that starts with a space and names the slot.
ValueKinds == {"empty", "blank", "other", "text"}

SlotValue(kind, k) ==
    CASE kind = "empty" -> JString(<<>>)
      [] kind = "blank" -> JString(<<" ">>)
      [] kind = "other" -> JObject(NoFields)
      [] OTHER -> JString(<<" ", "v", Digits[k + 1]>>)

\* The ways of filling at most MaxFilled of n slots.
Fillings(n) ==
    UNION {[S -> ValueKinds] :
               S \in {F \in SUBSET (1..n) : Cardinality(F) <= MaxFilled}}

LevelFields(slots, filling, level) ==
    LET filled == {k \in DOMAIN filling : slots[k].level = level}
    IN  [key \in {slots[k].key : k \in filled} |->
            LET k == CHOOSE m \in filled : slots[m].key = key
            IN  SlotValue(filling[k], k)]

Nested(key, fields) ==
    IF DOMAIN fields = {} THEN NoFields ELSE key :> JObject(fields)

\* The record that holds the slots as filled: the payload slots in its input
\* object.
FilledRecord(slots, filling) ==
    JObject(LevelFields(slots, filling, "top")
            @@ Nested("input", LevelFields(slots, filling, "payload"))
            @@ Nested("functionCall", LevelFields(slots, filling, "functionCall")))

FilledRecords(slots) ==
    {FilledRecord(slots, filling) : filling \in Fillings(Len(slots))}

\* Records whose name is shown under a label and decides whether they write.
NamedRecords ==
    {JObject(("name" :> JString(<<"s", "t", "r", "_", "r", "e", "p", "l", "a", "c", "e">>))
             @@ ("old_string" :> JString(<<"x">>))
             @@ ("new_string" :> JString(<<"y">>))),
     JObject(("new_string" :> JString(<<>>))
             @@ ("content" :> JString(<<"a", "b", "c">>))),
     JObject("tool_name" :> JString(<<" ", "R", "e", "a", "d", "-", "F", "i", "l", "e", "_", "_", "n", "o", "w", " ">>)),
     JObject(("tool" :> JString(<<"l", "s">>))
             @@ ("operation" :> JString(<<"C", "r", "e", "a", "t", "e", "_", "F", "i", "l", "e">>))),
     JObject(("functionCall" :> JObject("name" :> JString(<<"e", "x", "e", "c", "_", "c", "o", "m", "m", "a", "n", "d">>)))
             @@ ("args" :> JObject("operation" :> JString(<<"p", "a", "t", "c", "h">>)))),
     JObject("input" :> JObject("cmd" :> JString(<<"l", "s">>))),
     JInvalid}

FieldMessages ==
    FilledRecords(NameSlots) \cup FilledRecords(FilePathSlots)
    \cup FilledRecords(OldTextSlots) \cup FilledRecords(NewTextSlots)
    \cup FilledRecords(DiffSlots) \cup NamedRecords

InitFields ==
    /\ pc = "start"
    /\ AppIdle
    /\ rawText \in FieldMessages
    /\ invocation = NoInvocation
    /\ edit = NoEdit
    /\ diffText = Null
    /\ rows = <<>>
    /\ view = "none"
    /\ LineIdle
    /\ WordIdle

CallParseToolInvocationPayload ==
    /\ pc = "start"
    /\ invocation' = ParseToolInvocationPayload(rawText)
    /\ pc' = "invoked"
    /\ UNCHANGED <<rawText, edit, diffText, rows, view, lineVars, wordVars, appVars>>

NextFields == CallParseToolInvocationPayload \/ CallParseToolEditPayload

SpecFields == InitFields /\ [][NextFields]_vars

(***************************************************************************)
(* Direct calls of DiffBlock                                               *)
(***************************************************************************)
MaxDiffLines == 4    \* most lines in a diff text given to DiffBlock directly

\* Lines of a diff text: hunk headers without and with counts, a line that
\* starts with "@@" and is no hunk header, a line that starts with "@@" and
\* holds a hunk header further on, an added, a removed and a context line and
\* a file header.
DiffLines ==
    {<<"@", "@", " ", "-", "3", " ", "+", "5", " ", "@", "@">>,
     <<"@", "@", " ", "-", "2", ",", "3", " ", "+", "4", ",", "2", " ", "@", "@", " ", "f">>,
     <<"@", "@", " ", "-", "a", " ", "+", "1", " ", "@", "@">>,
     <<"@", "@", "@", " ", "-", "7", " ", "+", "9", " ", "@", "@">>,
     <<"+", "x">>,
     <<"-", "y">>,
     <<" ", "z">>,
     <<"-", "-", "-", " ", "a">>}

DiffTexts == {JoinLines(ls) : ls \in SeqsUpTo(DiffLines, MaxDiffLines) \ {<<>>}}

InitDiff ==
    /\ pc = "start"
    /\ AppIdle
    /\ diffText \in DiffTexts
    /\ rows = <<>>
    /\ rawText = JInvalid
    /\ invocation = NoInvocation
    /\ edit = NoEdit
    /\ view = "none"
    /\ LineIdle
    /\ WordIdle

CallDiffBlock ==
    /\ pc = "start"
    /\ rows' = DiffBlock(diffText)
    /\ pc' = "rendered"
    /\ UNCHANGED <<diffText, rawText, invocation, edit, view, lineVars, wordVars, appVars>>

NextDiff == CallDiffBlock

SpecDiff == InitDiff /\ [][NextDiff]_vars

(***************************************************************************)
(* The category chips of the search view                                   *)
(***************************************************************************)
diffVars == <<lineVars, wordVars, editVars>>

DiffIdle == LineIdle /\ WordIdle /\ EditIdle

InitChips ==
    /\ pc = "start"
    /\ AppIdle
    /\ DiffIdle

\* onClick of a category chip of the search view.
ClickSearchCategoryChip ==
    \E k \in 1..Len(CATEGORIES) :
        /\ searchCategories' = ToggleRequiredValue(searchCategories, CATEGORIES[k], CATEGORIES)
        /\ pc' = "toggled"
        /\ UNCHANGED <<diffVars, refreshVars, listVars, detailVars, sharedVars>>

NextChips == ClickSearchCategoryChip

SpecChips == InitChips /\ [][NextChips]_vars

(***************************************************************************)
(* handleRefresh, with an index that holds no project: projects:list       *)
(* answers with no project and the search query is empty, so the three     *)
(* loads of a refresh leave projects, sessions and the selection as they   *)
(* are.                                                                    *)
(***************************************************************************)
MaxRefreshes == 3    \* most calls of handleRefresh in flight at once

RemoveAt(s, i) == SubSeq(s, 1, i - 1) \o SubSeq(s, i + 1, Len(s))

InitRefresh ==
    /\ pc = "start"
    /\ AppIdle
    /\ DiffIdle

\* handleRefresh up to its first await.
StartRefresh(force) ==
    /\ refreshing' = TRUE
    /\ refreshMode' = IF force THEN "force" ELSE "incremental"
    /\ statusText' = ""
    /\ refreshes' = Append(refreshes, [force |-> force, phase |-> "indexing"])
    /\ pc' = "refreshStarted"
    /\ UNCHANGED <<diffVars, chipVars, listVars, detailVars,
                   selectedSessionId, sessionPage, focusSourceId>>

\* onClick of the Refresh and Force Reindex buttons, disabled while refreshing.
ClickRefreshButton ==
    /\ ~refreshing
    /\ Len(refreshes) < MaxRefreshes
    /\ \E force \in BOOLEAN : StartRefresh(force)

\* onKeyDown with Cmd/Ctrl+R and Cmd/Ctrl+Shift+R.
PressRefreshShortcut ==
    /\ Len(refreshes) < MaxRefreshes
    /\ \E force \in BOOLEAN : StartRefresh(force)

\* indexer:refresh has answered: loadProjects, loadSessions and loadSearch are
\* called; loadSessions, with no project selected, empties the session list
\* and the selected session at once.
IndexerRefreshed ==
    \E i \in 1..Len(refreshes) :
        /\ refreshes[i].phase = "indexing"
        /\ refreshes' = [refreshes EXCEPT ![i].phase = "loading"]
        /\ sessions' = IF selectedProjectId = "" THEN <<>> ELSE sessions
        /\ selectedSessionId' = IF selectedProjectId = "" THEN "" ELSE selectedSessionId
        /\ pc' = "refreshIndexed"
        /\ UNCHANGED <<diffVars, chipVars, refreshing, refreshMode, statusText,
                       projects, selectedProjectId, pendingSearchNavigation, mainView,
                       sessionsRequests, loadSessionsFor, detailVars, sessionPage,
                       focusSourceId>>

\* The three loads have answered: the finally block.
RefreshSucceeded ==
    \E i \in 1..Len(refreshes) :
        /\ refreshes[i].phase = "loading"
        /\ refreshes' = RemoveAt(refreshes, i)
        /\ refreshing' = FALSE
        /\ projects' = <<>>
        /\ pc' = "refreshSucceeded"
        /\ UNCHANGED <<diffVars, chipVars, refreshMode, statusText,
                       selectedProjectId, sessions, pendingSearchNavigation, mainView,
                       sessionsRequests, loadSessionsFor, detailVars,
                       selectedSessionId, sessionPage, focusSourceId>>

\* One of the awaited calls has failed: the catch and the finally block.
RefreshFailed ==
    \E i \in 1..Len(refreshes) :
        /\ refreshes' = RemoveAt(refreshes, i)
        /\ statusText' = "Refresh failed"
        /\ refreshing' = FALSE
        /\ pc' = "refreshFailed"
        /\ UNCHANGED <<diffVars, chipVars, refreshMode, listVars, detailVars,
                       selectedSessionId, sessionPage, focusSourceId>>

NextRefresh ==
    \/ ClickRefreshButton
    \/ PressRefreshShortcut
    \/ IndexerRefreshed
    \/ RefreshSucceeded
    \/ RefreshFailed

SpecRefresh == InitRefresh /\ [][NextRefresh]_vars

(***************************************************************************)
(* The project list, the session list and the navigation to a search       *)
(* result.  A step is a handler or a response, or one render with the      *)
(* effects it runs; no handler and no response runs while a render has     *)
(* effects to run.  The session detail effect is left out here: it does    *)
(* not write what these effects read.                                      *)
(***************************************************************************)
MaxListRequests == 2   \* most sessions:list requests in flight at once
MaxPages == 2          \* pages of a selected session

\* What the backend holds: the projects in the order the window sorts them,
\* the sessions of each in the order the window sorts them, and the search
\* results, one of them for a session that is no longer listed.
BackendProjects == <<"A", "B">>

SessionsOf(projectId) == IF projectId = "A" THEN <<"s1", "s2">> ELSE <<"s3">>

SearchResult(projectId, sessionId, sourceId) ==
    [pending |-> TRUE, projectId |-> projectId, sessionId |-> sessionId,
     sourceId |-> sourceId]

SearchResults ==
    {SearchResult("A", "s2", "m1"), SearchResult("B", "s3", "m2"),
     SearchResult("B", "s9", "m3")}

\* The state the effects read and write; dep is the selectedProjectId the
\* sessions effect last ran with.
ListState ==
    [projects |-> projects, selectedProjectId |-> selectedProjectId,
     sessions |-> sessions, selectedSessionId |-> selectedSessionId,
     sessionPage |-> sessionPage, focusSourceId |-> focusSourceId,
     pending |-> pendingSearchNavigation, mainView |-> mainView,
     requests |-> sessionsRequests, dep |-> loadSessionsFor]

\* A cleanup that leaves the cancelled flags as they are.
CancelNone(requests) == requests

\* The cleanup of an effect, for every request it has in flight:
\* cancelled = true.
CancelAll(requests) ==
    [k \in 1..Len(requests) |-> [requests[k] EXCEPT !.cancelled = TRUE]]

\* The effect that keeps a listed project selected, on the state st of the
\* render, writing into the state to.
ProjectAutoSelect(st, to) ==
    IF Len(st.projects) = 0
    THEN IF ~st.pending.pending THEN [to EXCEPT !.selectedProjectId = ""] ELSE to
    ELSE IF ~st.pending.pending /\ ~IncludesValue(st.projects, st.selectedProjectId)
    THEN [to EXCEPT !.selectedProjectId = st.projects[1]]
    ELSE to

\* The sessions effect, run when selectedProjectId is not the one it last ran
\* with: its cleanup, then loadSessions up to its await.
SessionsEffect(st, to) ==
    IF st.selectedProjectId = st.dep THEN to
    ELSE IF st.selectedProjectId = ""
    THEN [to EXCEPT !.requests = CancelAll(to.requests), !.dep = "",
                    !.sessions = <<>>, !.selectedSessionId = ""]
    ELSE [to EXCEPT !.requests = Append(CancelAll(to.requests),
                                        [projectId |-> st.selectedProjectId,
                                         cancelled |-> FALSE]),
                    !.dep = st.selectedProjectId]

\* The effect that keeps a listed session selected.
SessionAutoSelect(st, to) ==
    IF Len(st.sessions) = 0
    THEN IF ~st.pending.pending THEN [to EXCEPT !.selectedSessionId = ""] ELSE to
    ELSE IF st.pending.pending THEN to
    ELSE IF st.selectedSessionId = "" \/ ~IncludesValue(st.sessions, st.selectedSessionId)
    THEN [to EXCEPT !.selectedSessionId = st.sessions[1]]
    ELSE to

\* A pending navigation effect that selects the project and stops there.
PendingNavigationProjectOnly(st, to) ==
    IF ~st.pending.pending THEN to
    ELSE IF st.pending.projectId # st.selectedProjectId
    THEN [to EXCEPT !.selectedProjectId = st.pending.projectId]
    ELSE to

\* The effect that carries out the pending navigation.
PendingNavigation(st, to) ==
    IF ~st.pending.pending THEN to
    ELSE IF st.pending.projectId # st.selectedProjectId
    THEN [to EXCEPT !.selectedProjectId = st.pending.projectId]
    ELSE IF ~IncludesValue(st.sessions, st.pending.sessionId) THEN to
    ELSE [to EXCEPT !.selectedSessionId = st.pending.sessionId,
                    !.sessionPage = 0,
                    !.focusSourceId = st.pending.sourceId,
                    !.pending = NoNavigation,
                    !.mainView = "history"]

\* The effects of one render, in the order they are declared: each reads the
\* state of the render, and a later write to the same state wins.
RunEffects(st) ==
    PendingNavigation(st,
        SessionAutoSelect(st,
            SessionsEffect(st,
                ProjectAutoSelect(st, st))))

\* No effect has anything to do in the state rendered.
Settled == RunEffects(ListState) = ListState

\* The state written by a handler, a response or the effects of a render.
Becomes(st) ==
    /\ projects' = st.projects
    /\ selectedProjectId' = st.selectedProjectId
    /\ sessions' = st.sessions
    /\ selectedSessionId' = st.selectedSessionId
    /\ sessionPage' = st.sessionPage
    /\ focusSourceId' = st.focusSourceId
    /\ pendingSearchNavigation' = st.pending
    /\ mainView' = st.mainView
    /\ sessionsRequests' = st.requests
    /\ loadSessionsFor' = st.dep

listIdleVars == <<diffVars, chipVars, refreshVars, detailVars>>

InitList ==
    /\ pc = "start"
    /\ AppIdle
    /\ DiffIdle

\* A render whose effects have something to do, and those effects.
RenderEffects ==
    /\ ~Settled
    /\ Becomes(RunEffects(ListState))
    /\ pc' = "effectsRun"
    /\ UNCHANGED <<listIdleVars, statusText>>

\* The response to projects:list.
ProjectsListed ==
    /\ Settled
    /\ projects = <<>>
    /\ Len(sessionsRequests) < MaxListRequests
    /\ Becomes([ListState EXCEPT !.projects = BackendProjects])
    /\ pc' = "projectsListed"
    /\ UNCHANGED <<listIdleVars, statusText>>

\* onClick of a project of the project pane.
ClickProject ==
    /\ Settled
    /\ mainView = "history"
    /\ Len(sessionsRequests) < MaxListRequests
    /\ \E k \in 1..Len(projects) :
           Becomes([ListState EXCEPT !.pending = NoNavigation,
                                     !.selectedProjectId = projects[k]])
    /\ pc' = "projectClicked"
    /\ UNCHANGED <<listIdleVars, statusText>>

\* onClick of a session of the session pane.
ClickSession ==
    /\ Settled
    /\ mainView = "history"
    /\ \E k \in 1..Len(sessions) :
           Becomes([ListState EXCEPT !.pending = NoNavigation,
                                     !.selectedSessionId = sessions[k],
                                     !.sessionPage = 0,
                                     !.focusSourceId = "",
                                     !.mainView = "history"])
    /\ pc' = "sessionClicked"
    /\ UNCHANGED <<listIdleVars, statusText>>

\* onClick of a result of the search view.
ClickSearchResult ==
    /\ Settled
    /\ mainView = "search"
    /\ Len(sessionsRequests) < MaxListRequests
    /\ \E result \in SearchResults :
           Becomes([ListState EXCEPT !.pending = result,
                                     !.selectedProjectId = result.projectId,
                                     !.mainView = "history"])
    /\ pc' = "searchResultClicked"
    /\ UNCHANGED <<listIdleVars, statusText>>

\* onClick of the Global Search tab, or Cmd/Ctrl+2.
ShowSearch ==
    /\ Settled
    /\ mainView = "history"
    /\ Becomes([ListState EXCEPT !.mainView = "search"])
    /\ pc' = "searchShown"
    /\ UNCHANGED <<listIdleVars, statusText>>

\* onClick of Next in the pagination row; totalPages comes from the session
\* detail, here MaxPages for a selected session.
ClickNextPage ==
    /\ Settled
    /\ mainView = "history"
    /\ selectedSessionId # ""
    /\ sessionPage + 1 < MaxPages
    /\ Becomes([ListState EXCEPT !.sessionPage = Min(MaxPages - 1, sessionPage + 1)])
    /\ pc' = "pageTurned"
    /\ UNCHANGED <<listIdleVars, statusText>>

\* The response to a sessions:list request: setSessions(response.sessions).
SessionsListed ==
    /\ Settled
    /\ \E i \in 1..Len(sessionsRequests) :
           Becomes([ListState EXCEPT
                        !.sessions = SessionsOf(sessionsRequests[i].projectId),
                        !.requests = RemoveAt(sessionsRequests, i)])
    /\ pc' = "sessionsListed"
    /\ UNCHANGED <<listIdleVars, statusText>>

\* A sessions:list request fails: the catch of the sessions effect.
SessionsListFailed ==
    /\ Settled
    /\ \E i \in 1..Len(sessionsRequests) :
           /\ Becomes([ListState EXCEPT !.requests = RemoveAt(sessionsRequests, i)])
           /\ statusText' = IF sessionsRequests[i].cancelled THEN statusText
                            ELSE "Failed loading sessions"
    /\ pc' = "sessionsFailed"
    /\ UNCHANGED listIdleVars

NextList ==
    \/ RenderEffects
    \/ ProjectsListed
    \/ ClickProject
    \/ ClickSession
    \/ ClickSearchResult
    \/ ShowSearch
    \/ ClickNextPage
    \/ SessionsListed
    \/ SessionsListFailed

SpecList == InitList /\ [][NextList]_vars

\* Every render runs its effects, and every response arrives in the end.
SpecListLive == SpecList /\ WF_vars(RenderEffects) /\ WF_vars(SessionsListed)

(***************************************************************************)
(* The session detail effect.  A step is a handler or a response together  *)
(* with the run of the effect that the change of its dependencies causes:  *)
(* the cleanup of the previous run, then the new request.  Responses       *)
(* arrive in any order.                                                    *)
(***************************************************************************)
MaxDetailRequests == 3   \* sessions:getDetail requests issued

\* The chips clicked, the texts typed and the messages focused.
HistoryChips == {"system"}
SessionQueries == {"", "q"}
FocusSources == {"m1"}

\* The state the detail effect reads and writes.
DetailState ==
    [selectedSessionId |-> selectedSessionId, sessionPage |-> sessionPage,
     historyCategories |-> historyCategories, sessionQuery |-> sessionQuery,
     focusSourceId |-> focusSourceId, sessionDetail |-> sessionDetail,
     requests |-> detailRequests, issued |-> detailIssued]

\* The dependencies of the detail effect, which are the arguments of its
\* request.
DepsOf(st) ==
    [sessionId |-> st.selectedSessionId, page |-> st.sessionPage,
     categories |-> st.historyCategories, query |-> st.sessionQuery,
     focusSourceId |-> st.focusSourceId]

\* The detail effect after a render whose state is st, when the render
\* before had the dependencies deps.
DetailEffect(deps, st) ==
    IF DepsOf(st) = deps THEN st
    ELSE IF st.selectedSessionId = ""
    THEN [st EXCEPT !.requests = CancelAll(st.requests),
                    !.sessionDetail = NoDetail]
    ELSE [st EXCEPT !.requests = Append(CancelAll(st.requests),
                                        [id |-> st.issued + 1,
                                         args |-> DepsOf(st),
                                         cancelled |-> FALSE]),
                    !.issued = st.issued + 1]

\* The state after a handler or a response that left st.
DetailBecomes(st) ==
    LET after == DetailEffect(DepsOf(DetailState), st)
    IN  /\ selectedSessionId' = after.selectedSessionId
        /\ sessionPage' = after.sessionPage
        /\ historyCategories' = after.historyCategories
        /\ sessionQuery' = after.sessionQuery
        /\ focusSourceId' = after.focusSourceId
        /\ sessionDetail' = after.sessionDetail
        /\ detailRequests' = after.requests
        /\ detailIssued' = after.issued

\* totalPages: one page while no detail is loaded.
TotalPages == IF sessionDetail.loaded THEN MaxPages ELSE 1

detailIdleVars == <<diffVars, chipVars, refreshVars, pendingSearchNavigation,
                    mainView, sessionsRequests>>

InitDetail ==
    /\ pc = "start"
    /\ AppIdle
    /\ DiffIdle

\* A project is selected (or none is) and its sessions are listed; the
\* session auto-selection effect then keeps a listed session selected.
ProjectSessionsShown ==
    /\ detailIssued < MaxDetailRequests
    /\ \E projectId \in {"", "A", "B"} :
           LET listed == IF projectId = "" THEN <<>> ELSE SessionsOf(projectId)
               st == [ListState EXCEPT !.sessions = listed]
           IN  /\ projectId # selectedProjectId
               /\ projects' = BackendProjects
               /\ selectedProjectId' = projectId
               /\ loadSessionsFor' = projectId
               /\ sessions' = listed
               /\ DetailBecomes([DetailState EXCEPT
                       !.selectedSessionId =
                           SessionAutoSelect(st, st).selectedSessionId])
    /\ pc' = "sessionsShown"
    /\ UNCHANGED <<detailIdleVars, statusText>>

\* onClick of a session in the session list.
OpenSession ==
    /\ detailIssued < MaxDetailRequests
    /\ \E k \in 1..Len(sessions) :
           DetailBecomes([DetailState EXCEPT !.selectedSessionId = sessions[k],
                                             !.sessionPage = 0,
                                             !.focusSourceId = ""])
    /\ pendingSearchNavigation' = NoNavigation
    /\ mainView' = "history"
    /\ pc' = "sessionOpened"
    /\ UNCHANGED <<diffVars, chipVars, refreshVars, projects, selectedProjectId,
                   sessions, sessionsRequests, loadSessionsFor, statusText>>

\* onChange of the session query input: setSessionPage(0).  The query itself
\* follows after the debounce delay.
TypeSessionQuery ==
    /\ detailIssued < MaxDetailRequests
    /\ selectedSessionId # ""
    /\ DetailBecomes([DetailState EXCEPT !.sessionPage = 0])
    /\ pc' = "queryTyped"
    /\ UNCHANGED <<detailIdleVars, projects, selectedProjectId, sessions,
                   loadSessionsFor, statusText>>

\* useDebouncedValue hands the typed text on as sessionQuery.
SessionQueryDebounced ==
    /\ detailIssued < MaxDetailRequests
    /\ \E query \in SessionQueries \ {sessionQuery} :
           DetailBecomes([DetailState EXCEPT !.sessionQuery = query])
    /\ pc' = "queryDebounced"
    /\ UNCHANGED <<detailIdleVars, projects, selectedProjectId, sessions,
                   loadSessionsFor, statusText>>

\* onClick of a category chip of the history view.
ToggleHistoryCategory ==
    /\ detailIssued < MaxDetailRequests
    /\ \E category \in HistoryChips :
           DetailBecomes([DetailState EXCEPT
                   !.historyCategories = ToggleValue(historyCategories, category),
                   !.sessionPage = 0])
    /\ pc' = "historyToggled"
    /\ UNCHANGED <<detailIdleVars, projects, selectedProjectId, sessions,
                   loadSessionsFor, statusText>>

\* onToggleFocused of a message of the detail shown.
ToggleFocused ==
    /\ detailIssued < MaxDetailRequests
    /\ sessionDetail.loaded
    /\ \E sourceId \in FocusSources :
           DetailBecomes([DetailState EXCEPT
                   !.focusSourceId = IF focusSourceId = sourceId THEN ""
                                     ELSE sourceId])
    /\ pc' = "focusToggled"
    /\ UNCHANGED <<detailIdleVars, projects, selectedProjectId, sessions,
                   loadSessionsFor, statusText>>

\* onClick of Previous in the pagination row.
ClickPrevious ==
    /\ detailIssued < MaxDetailRequests
    /\ sessionPage > 0
    /\ DetailBecomes([DetailState EXCEPT !.sessionPage = Max(0, sessionPage - 1)])
    /\ pc' = "previousPage"
    /\ UNCHANGED <<detailIdleVars, projects, selectedProjectId, sessions,
                   loadSessionsFor, statusText>>

\* onClick of Next in the pagination row.
ClickNext ==
    /\ detailIssued < MaxDetailRequests
    /\ sessionPage + 1 < TotalPages
    /\ DetailBecomes([DetailState EXCEPT
               !.sessionPage = Min(TotalPages - 1, sessionPage + 1)])
    /\ pc' = "nextPage"
    /\ UNCHANGED <<detailIdleVars, projects, selectedProjectId, sessions,
                   loadSessionsFor, statusText>>

\* The response to a sessions:getDetail request, with the page the backend
\* chose: the then callback, which closes over the sessionPage of its
\* request.
DetailLoaded ==
    /\ \E i \in 1..Len(detailRequests), page \in 0..(MaxPages - 1) :
           LET request == detailRequests[i]
               rest == [DetailState EXCEPT !.requests = RemoveAt(detailRequests, i)]
           IN  IF request.cancelled
               THEN /\ DetailBecomes(rest)
                    /\ pc' = "detailDropped"
               ELSE /\ page # request.args.page => detailIssued < MaxDetailRequests
                    /\ DetailBecomes([rest EXCEPT
                            !.sessionDetail = [loaded |-> TRUE,
                                               sessionId |-> request.args.sessionId,
                                               page |-> page],
                            !.sessionPage = IF page # request.args.page THEN page
                                            ELSE rest.sessionPage])
                    /\ pc' = "detailApplied"
    /\ UNCHANGED <<detailIdleVars, projects, selectedProjectId, sessions,
                   loadSessionsFor, statusText>>

\* The failure of a sessions:getDetail request: the catch callback.
DetailFailed ==
    /\ \E i \in 1..Len(detailRequests) :
           /\ DetailBecomes([DetailState EXCEPT
                                 !.requests = RemoveAt(detailRequests, i)])
           /\ IF detailRequests[i].cancelled
              THEN /\ statusText' = statusText
                   /\ pc' = "detailFailureDropped"
              ELSE /\ statusText' = "Failed loading session detail"
                   /\ pc' = "detailFailed"
    /\ UNCHANGED <<detailIdleVars, projects, selectedProjectId, sessions,
                   loadSessionsFor>>

NextDetail ==
    \/ ProjectSessionsShown
    \/ OpenSession
    \/ TypeSessionQuery
    \/ SessionQueryDebounced
    \/ ToggleHistoryCategory
    \/ ToggleFocused
    \/ ClickPrevious
    \/ ClickNext
    \/ DetailLoaded
    \/ DetailFailed

SpecDetail == InitDetail /\ [][NextDetail]_vars

(***************************************************************************)
(* Properties of the edit script and of the hunks                          *)
(***************************************************************************)
TextsOf(ops, skipped) ==
    LET kept == SelectSeq(ops, LAMBDA op : op.type # skipped)
    IN  [k \in 1..Len(kept) |-> kept[k].line]

HasType(ops, type) == \E k \in 1..Len(ops) : ops[k].type = type

\* C1: the edit script of buildLineOperations covers every old line and every
\* new line exactly once: the lines of its equal and remove operations, in
\* order, are the old lines, and the lines of its equal and add operations,
\* in order, are the new lines; two empty sequences give the empty script and
\* one old line against none gives the single removal of that line.
C1_ScriptCoversBothSides ==
    pc \in {"aligned", "hunked"} =>
        /\ TextsOf(operations, "add") = oldLines
        /\ TextsOf(operations, "remove") = newLines
        /\ (oldLines = <<>> /\ newLines = <<>>) => operations = <<>>
        /\ (Len(oldLines) = 1 /\ newLines = <<>>) =>
               operations = <<RemoveOp(oldLines[1], 1)>>

C1_Witness ==
    /\ pc = "aligned"
    /\ HasType(operations, "equal")
    /\ HasType(operations, "remove")
    /\ HasType(operations, "add")
    /\ operations[Len(operations)].type = "remove"

\* C2: the hunks of buildDiffHunks are in line order and do not overlap: each
\* hunk ends before the next one starts, so no operation is in two hunks.
C2_HunksDisjoint ==
    pc = "hunked" =>
        \A k \in 1..(Len(hunks) - 1) : hunks[k].hunkEnd < hunks[k + 1].hunkStart

HunkOpsOf(h) == SubSeq(operations, h.hunkStart + 1, h.hunkEnd + 1)

CountRows(h, prefix) ==
    Cardinality({r \in 1..Len(h.lines) : h.lines[r][1] # prefix})

FirstNumber(ns) ==
    LET numbered == {k \in 1..Len(ns) : ns[k] # 0}
    IN  IF numbered = {} THEN 1
        ELSE ns[CHOOSE k \in numbered : \A m \in numbered : k <= m]

\* C3: in every hunk oldCount is the number of rows that are not additions,
\* newCount the number of rows that are not removals, oldStart the old line
\* number of the first row that has one and newStart the new line number of
\* the first row that has one, each 1 when no row has one.
C3_HunkHeaderCounts ==
    pc = "hunked" =>
        \A k \in 1..Len(hunks) :
            LET h == hunks[k]
                hunkOps == HunkOpsOf(h)
            IN  /\ Len(h.lines) = Len(hunkOps)
                /\ h.oldCount = CountRows(h, "+")
                /\ h.newCount = CountRows(h, "-")
                /\ h.oldStart = FirstNumber([r \in 1..Len(hunkOps) |-> hunkOps[r].oldLine])
                /\ h.newStart = FirstNumber([r \in 1..Len(hunkOps) |-> hunkOps[r].newLine])

C3_Witness ==
    /\ pc = "hunked"
    /\ \E k \in 1..Len(hunks) :
           /\ hunks[k].oldStart > 1
           /\ hunks[k].oldCount > 0
           /\ hunks[k].newCount # hunks[k].oldCount
    /\ \E k \in 1..Len(hunks) :
           /\ hunks[k].oldCount = 0
           /\ hunks[k].oldStart = 1
           /\ hunks[k].newCount > 0

(***************************************************************************)
(* Properties of the inline segments                                       *)
(***************************************************************************)
RECURSIVE ConcatTexts(_)
ConcatTexts(parts) ==
    IF parts = <<>> THEN <<>> ELSE parts[1].text \o ConcatTexts(Tail(parts))

\* C5: the texts of the left parts of diffInlineSegments, concatenated in
\* order, are the left string, and those of the right parts the right string;
\* no part is empty, and an empty string gives no part.
C5_SegmentsRoundTrip ==
    pc = "segmented" =>
        /\ ConcatTexts(inline.left) = left
        /\ ConcatTexts(inline.right) = right
        /\ \A k \in 1..Len(inline.left) : inline.left[k].text # <<>>
        /\ \A k \in 1..Len(inline.right) : inline.right[k].text # <<>>
        /\ (left = <<>> => inline.left = <<>>)
        /\ (right = <<>> => inline.right = <<>>)

C5_Witness ==
    /\ pc = "segmented"
    /\ \E k \in 1..Len(inline.left) :
           /\ IsSpace(inline.left[k].text[1])
           /\ Len(inline.left[k].text) > 1
    /\ \E k \in 1..Len(inline.left) : inline.left[k].changed
    /\ \E k \in 1..Len(inline.right) : ~inline.right[k].changed
    /\ left # right

(***************************************************************************)
(* Properties of ToolEditContent: the unified diff of a text pair, the     *)
(* apply-patch conversion and the rows of the diff block                   *)
(***************************************************************************)
Parsed == pc \in {"parsed", "rendered"} /\ edit.parsed

\* The text the record carries as its input, null when it carries none.
PatchText == ApplyPatchInput(rawText, PayloadOf(rawText))

PatchTextLines == IF PatchText = Null THEN <<>> ELSE SplitLines(PatchText)

HasField(record, keys) ==
    \E key \in keys : AsNonEmptyString(Prop(record, key)) # Null

HasExplicitDiff ==
    \/ HasField(rawText, {"diff", "patch"})
    \/ HasField(PayloadOf(rawText), {"diff", "patch"})

HasExplicitPath ==
    \/ HasField(rawText, {"file_path", "path"})
    \/ HasField(PayloadOf(rawText), {"file_path", "path", "file"})

\* The record was taken for an apply-patch payload and its input converted.
Converted == Parsed /\ ~HasExplicitDiff /\ LooksLikeApplyPatchPayload(rawText, PayloadOf(rawText))

\* C4: buildDiffHunks gives no hunk for an edit script without removal and
\* addition, and for identical old and new text buildUnifiedDiffFromTextPair
\* gives the two file header lines and the single line "@@ -1,0 +1,0 @@",
\* which the diff block shows as three rows without line numbers.
C4_IdenticalTextsPlaceholder ==
    (pc = "rendered" /\ view = "pair") =>
        LET headerFile == IF edit.filePath = Null THEN <<"f", "i", "l", "e">> ELSE edit.filePath
        IN  /\ (~HasType(operations, "remove") /\ ~HasType(operations, "add"))
                   => hunks = <<>>
            /\ edit.oldText = edit.newText =>
                   /\ hunks = <<>>
                   /\ SplitLines(diffText) =
                          <<<<"-", "-", "-", " ", "a", "/">> \o headerFile,
                            <<"+", "+", "+", " ", "b", "/">> \o headerFile,
                            <<"@", "@", " ", "-", "1", ",", "0", " ", "+", "1", ",", "0", " ", "@", "@">>>>
                   /\ Len(rows) = 3
                   /\ \A k \in 1..3 : rows[k].kind = "meta"

C4_Witness ==
    /\ pc = "rendered"
    /\ view = "pair"
    /\ edit.oldText = edit.newText
    /\ Len(operations) = MaxTextLines
    /\ hunks = <<>>

DirectiveKind(line) ==
    IF StartsWith(line, <<"*", "*", "*", " ", "U", "p", "d", "a", "t", "e", " ", "F", "i", "l", "e", ":", " ">>) THEN "update"
    ELSE IF StartsWith(line, <<"*", "*", "*", " ", "A", "d", "d", " ", "F", "i", "l", "e", ":", " ">>) THEN "add"
    ELSE IF StartsWith(line, <<"*", "*", "*", " ", "D", "e", "l", "e", "t", "e", " ", "F", "i", "l", "e", ":", " ">>) THEN "delete"
    ELSE "none"

NamedPath(line) ==
    Trim(Slice(line, Len(CASE DirectiveKind(line) = "update" -> <<"*", "*", "*", " ", "U", "p", "d", "a", "t", "e", " ", "F", "i", "l", "e", ":", " ">>
                           [] DirectiveKind(line) = "add" -> <<"*", "*", "*", " ", "A", "d", "d", " ", "F", "i", "l", "e", ":", " ">>
                           [] OTHER -> <<"*", "*", "*", " ", "D", "e", "l", "e", "t", "e", " ", "F", "i", "l", "e", ":", " ">>)))

NamesFile(line) == DirectiveKind(line) # "none" /\ NamedPath(line) # <<>>

ExpectedOldHeader(line) ==
    IF DirectiveKind(line) = "add" THEN <<"-", "-", "-", " ", "/", "d", "e", "v", "/", "n", "u", "l", "l">>
    ELSE <<"-", "-", "-", " ", "a", "/">> \o NamedPath(line)

ExpectedNewHeader(line) ==
    IF DirectiveKind(line) = "delete" THEN <<"+", "+", "+", " ", "/", "d", "e", "v", "/", "n", "u", "l", "l">>
    ELSE <<"+", "+", "+", " ", "b", "/">> \o NamedPath(line)

ExpectedGitHeader(line) ==
    <<"d", "i", "f", "f", " ", "-", "-", "g", "i", "t", " ">>
    \o (IF DirectiveKind(line) = "add" THEN <<"/", "d", "e", "v", "/", "n", "u", "l", "l">>
        ELSE <<"a", "/">> \o NamedPath(line))
    \o <<" ">>
    \o (IF DirectiveKind(line) = "delete" THEN <<"/", "d", "e", "v", "/", "n", "u", "l", "l">>
        ELSE <<"b", "/">> \o NamedPath(line))

\* The locals of convertApplyPatchToUnifiedDiff after the first k lines.
ConvertedUpTo(lines, k) == ConvertLines(SubSeq(lines, 1, k), 1, ConvertStart)

NoMoveAfter(lines, k) ==
    \A m \in (k + 1)..Len(lines) : ~StartsWith(lines[m], <<"*", "*", "*", " ", "M", "o", "v", "e", " ", "t", "o", ":", " ">>)

\* C6: in convertApplyPatchToUnifiedDiff every file directive with a
\* non-blank path P appends, at that point of the output, "diff --git a/P b/P",
\* "--- a/P", "+++ b/P" for Update File, "--- /dev/null", "+++ b/P" for Add
\* File and "--- a/P", "+++ /dev/null" for Delete File, after a "diff --git"
\* line with the same two paths; the "--- " line is still there in the diff
\* text returned, and so are the other two when no Move to line follows.
C6_FileDirectiveHeaders ==
    Converted =>
        LET lines == PatchTextLines
        IN  \A k \in 1..Len(lines) :
            NamesFile(lines[k]) =>
                LET line == lines[k]
                    before == ConvertedUpTo(lines, k - 1).output
                    after == ConvertedUpTo(lines, k).output
                    final == IF edit.diff = Null THEN <<>> ELSE SplitLines(edit.diff)
                IN  /\ after = before \o <<ExpectedGitHeader(line),
                                           ExpectedOldHeader(line),
                                           ExpectedNewHeader(line)>>
                    /\ edit.diff # Null =>
                           /\ final[Len(before) + 2] = ExpectedOldHeader(line)
                           /\ NoMoveAfter(lines, k) =>
                                  /\ final[Len(before) + 1] = ExpectedGitHeader(line)
                                  /\ final[Len(before) + 3] = ExpectedNewHeader(line)

C6_Witness ==
    /\ Converted
    /\ edit.diff # Null
    /\ \E k \in 1..Len(PatchTextLines) : DirectiveKind(PatchTextLines[k]) = "update"
    /\ \E k \in 1..Len(PatchTextLines) : DirectiveKind(PatchTextLines[k]) = "delete"
    /\ \E k \in 1..Len(SplitLines(edit.diff)) : SplitLines(edit.diff)[k] = <<"+", "+", "+", " ", "/", "d", "e", "v", "/", "n", "u", "l", "l">>

\* The path named by the first file directive of the input, null when the
\* input has no directive or its first directive names no path.
FirstDirectivePath(lines) ==
    LET directives == {k \in 1..Len(lines) :
                           DirectiveKind(lines[k]) # "none"}
        first == CHOOSE k \in directives : \A m \in directives : k <= m
    IN  IF directives = {} THEN Null
        ELSE IF NamedPath(lines[first]) = <<>> THEN Null
        ELSE NamedPath(lines[first])

\* C7: for a record without a path field the file path returned by
\* parseToolEditPayload is the path named by the first Update File, Add File
\* or Delete File directive of the input, whether or not a diff text is
\* returned: an input holding only a Delete File directive gives no diff text
\* and that directive's path.
C7_PrimaryPathFromFirstDirective ==
    (Parsed /\ ~HasExplicitPath) =>
        LET lines == PatchTextLines
        IN  /\ edit.filePath = FirstDirectivePath(lines)
            /\ (/\ ~HasExplicitDiff
                /\ Len(lines) = 1
                /\ DirectiveKind(lines[1]) = "delete"
                /\ NamedPath(lines[1]) # <<>>)
                   => (edit.diff = Null /\ edit.filePath = NamedPath(lines[1]))

C7_Witness ==
    /\ Parsed
    /\ ~HasExplicitPath
    /\ edit.diff = Null
    /\ edit.filePath = <<"b">>
    /\ Len(PatchTextLines) = MaxPatchLines
    /\ DirectiveKind(PatchTextLines[1]) = "none"
    /\ DirectiveKind(PatchTextLines[2]) = "add"
    /\ DirectiveKind(PatchTextLines[3]) = "update"

IsBodyLine(line) ==
    line # <<>> /\ (line[1] \in {"+", "-", " "} \/ StartsWith(line, <<"@", "@">>))

BodyLineCount(lines) == Cardinality({k \in 1..Len(lines) : IsBodyLine(lines[k])})

NamedFileCount(lines) == Cardinality({k \in 1..Len(lines) : NamesFile(lines[k])})

\* C8: parseToolEditPayload returns a result for every message, and for an
\* apply-patch payload the diff text is null exactly when no line of the input
\* starts with "@@", "+", "-" or a space; otherwise it is the lines emitted
\* (three per file directive with a path, one per such line) joined by
\* newlines.
C8_DiffTextNullIffNoBodyLine ==
    /\ pc \in {"parsed", "rendered"} =>
           /\ edit.parsed = (rawText.t = "object")
           /\ edit.parsed => (edit.diff = Null \/ Len(edit.diff) > 0)
    /\ Converted =>
           LET lines == PatchTextLines
           IN  /\ (edit.diff = Null) = (BodyLineCount(lines) = 0)
               /\ edit.diff # Null =>
                      /\ edit.diff = JoinLines(ConvertedUpTo(lines, Len(lines)).output)
                      /\ Len(SplitLines(edit.diff)) =
                             3 * NamedFileCount(lines) + BodyLineCount(lines)

C8_Witness ==
    /\ Converted
    /\ edit.diff = Null
    /\ NamedFileCount(PatchTextLines) > 0
    /\ PatchText # Null

\* One of the values the record declares its tool or operation with (name,
\* tool, type of the record; operation, mode of its payload) holds apply_patch.
NamesApplyPatch ==
    \E field \in {<<rawText, "name">>, <<rawText, "tool">>, <<rawText, "type">>,
                  <<PayloadOf(rawText), "operation">>, <<PayloadOf(rawText), "mode">>} :
        /\ AsString(Prop(field[1], field[2])) # Null
        /\ Includes(ToLowerCase(AsString(Prop(field[1], field[2]))), <<"a", "p", "p", "l", "y", "_", "p", "a", "t", "c", "h">>)

\* The input is plain text: it holds neither the Begin Patch marker nor a
\* file directive, and the record has no diff and no path of its own.
PlainInput ==
    /\ Parsed
    /\ ~HasExplicitDiff
    /\ ~HasExplicitPath
    /\ PatchText # Null
    /\ ~Includes(PatchText, <<"*", "*", "*", " ", "B", "e", "g", "i", "n", " ", "P", "a", "t", "c", "h">>)
    /\ ~Includes(PatchText, <<"*", "*", "*", " ", "U", "p", "d", "a", "t", "e", " ", "F", "i", "l", "e", ":">>)
    /\ ~Includes(PatchText, <<"*", "*", "*", " ", "A", "d", "d", " ", "F", "i", "l", "e", ":">>)
    /\ ~Includes(PatchText, <<"*", "*", "*", " ", "D", "e", "l", "e", "t", "e", " ", "F", "i", "l", "e", ":">>)

IsMetaLine(line) ==
    \/ StartsWith(line, <<"@", "@">>)
    \/ StartsWith(line, <<"d", "i", "f", "f", " ", "-", "-", "g", "i", "t">>)
    \/ StartsWith(line, <<"i", "n", "d", "e", "x", " ">>)
    \/ StartsWith(line, <<"-", "-", "-", " ">>)
    \/ StartsWith(line, <<"+", "+", "+", " ">>)

\* C10: for the diff text of buildUnifiedDiffFromTextPair or of the
\* apply-patch conversion, the diff block shows one row per line, and a row
\* has both line numbers blank if and only if it is a meta row: the lines
\* starting with "@@", "diff --git", "index ", "--- " or "+++ " are meta rows
\* with both numbers blank, and every remove, add and context row shows a
\* line number.
C10_BlankNumbersIffMeta ==
    (pc = "rendered" /\ view \in {"diff", "pair"}) =>
        LET lines == SplitLines(diffText)
        IN  /\ Len(rows) = Len(lines)
            /\ \A k \in 1..Len(rows) :
                   /\ (rows[k].oldNumber = Blank /\ rows[k].newNumber = Blank)
                          = (rows[k].kind = "meta")
                   /\ IsMetaLine(lines[k]) => rows[k].kind = "meta"
                   /\ rows[k].kind = "remove" => rows[k].oldNumber >= 0
                   /\ rows[k].kind = "add" => rows[k].newNumber >= 0
                   /\ rows[k].kind = "context" =>
                          (rows[k].oldNumber >= 0 /\ rows[k].newNumber >= 0)

C10_Witness ==
    /\ pc = "rendered"
    /\ view = "pair"
    /\ \E k \in 4..Len(rows) :
           /\ rows[k].kind = "meta"
           /\ StartsWith(SplitLines(diffText)[k], <<"-", "-", "-", " ">>)
    /\ \E k \in 1..Len(rows) : rows[k].kind = "add"
    /\ \E k \in 1..Len(rows) : rows[k].kind = "context"

(***************************************************************************)
(* Properties of the fields read from a record                             *)
(***************************************************************************)
\* The value a slot of the record holds.
HeldAt(record, slot) ==
    Prop(CASE slot.level = "top" -> record
           [] slot.level = "payload" -> PayloadOf(record)
           [] OTHER -> AsObject(Prop(record, "functionCall")),
         slot.key)

IsText(value) == value.t = "string"

NonEmptyText(value) == value.t = "string" /\ value.v # <<>>

NonBlankText(value) == value.t = "string" /\ Trim(value.v) # <<>>

\* The value of the first slot, in the order of the slots, that holds an
\* accepted value.
FirstHeld(record, slots, Accepts(_)) ==
    LET good == {k \in 1..Len(slots) : Accepts(HeldAt(record, slots[k]))}
    IN  IF good = {} THEN JUndefined
        ELSE HeldAt(record, slots[CHOOSE k \in good : \A m \in good : k <= m])

TextOrNull(value) == IF value.t = "string" THEN value.v ELSE Null

TrimmedTextOrNull(value) == IF value.t = "string" THEN Trim(value.v) ELSE Null

\* C11 as claimed: every field is the value of the first of its keys, in
\* priority order, that holds a non-empty string: the name, the file path and
\* the diff (read without the white space around them) as well as the old and
\* the new text, so that a key holding the empty string is skipped.
C11_FirstNonEmptyAliasWins ==
    /\ (pc = "invoked" /\ invocation.parsed) =>
           invocation.name = TrimmedTextOrNull(FirstHeld(rawText, NameSlots, NonBlankText))
    /\ (pc = "parsed" /\ edit.parsed) =>
           /\ edit.filePath = TrimmedTextOrNull(FirstHeld(rawText, FilePathSlots, NonBlankText))
           /\ edit.diff = TrimmedTextOrNull(FirstHeld(rawText, DiffSlots, NonBlankText))
           /\ edit.oldText = TextOrNull(FirstHeld(rawText, OldTextSlots, NonEmptyText))
           /\ edit.newText = TextOrNull(FirstHeld(rawText, NewTextSlots, NonEmptyText))

\* C11 as amended: the name, the file path and the diff are the trimmed value
\* of the first of their keys that holds a string with a character that is
\* not white space; the old and the new text are the value, as it is, of the
\* first of their keys that holds a string, the empty string included.
C11_FirstAliasWins ==
    /\ (pc = "invoked" /\ invocation.parsed) =>
           invocation.name = TrimmedTextOrNull(FirstHeld(rawText, NameSlots, NonBlankText))
    /\ (pc = "parsed" /\ edit.parsed) =>
           /\ edit.filePath = TrimmedTextOrNull(FirstHeld(rawText, FilePathSlots, NonBlankText))
           /\ edit.diff = TrimmedTextOrNull(FirstHeld(rawText, DiffSlots, NonBlankText))
           /\ edit.oldText = TextOrNull(FirstHeld(rawText, OldTextSlots, IsText))
           /\ edit.newText = TextOrNull(FirstHeld(rawText, NewTextSlots, IsText))

C11_Witness ==
    /\ pc = "parsed"
    /\ edit.parsed
    /\ HeldAt(rawText, NewTextSlots[1]) = JString(<<>>)
    /\ NonBlankText(HeldAt(rawText, NewTextSlots[4]))
    /\ edit.newText = <<>>

(***************************************************************************)
(* Properties of the line numbers and of the length of the edit script     *)
(***************************************************************************)
\* The number of operations among the first k that are not of the type.
CountBefore(ops, k, skipped) ==
    Cardinality({m \in 1..k : ops[m].type # skipped})

\* C12: in the edit script of buildLineOperations an operation has an old
\* line number (not 0) iff it is equal or remove, and a new line number iff it
\* is equal or add; the k-th equal-or-remove operation has old line number k
\* and the k-th equal-or-add operation has new line number k.
C12_LineNumbersCountLines ==
    pc \in {"aligned", "hunked"} =>
        \A k \in 1..Len(operations) :
            LET op == operations[k]
            IN  /\ (op.oldLine # 0) = (op.type \in {"equal", "remove"})
                /\ (op.newLine # 0) = (op.type \in {"equal", "add"})
                /\ op.type # "add" => op.oldLine = CountBefore(operations, k, "add")
                /\ op.type # "remove" => op.newLine = CountBefore(operations, k, "remove")

C12_Witness ==
    /\ pc = "aligned"
    /\ Len(operations) > MaxLines
    /\ \E k \in 2..Len(operations) :
           /\ operations[k].type = "equal"
           /\ operations[k].oldLine > operations[k].newLine
    /\ \E k \in 2..Len(operations) :
           /\ operations[k].type = "add"
           /\ operations[k].newLine > 1
    /\ HasType(operations, "remove")

\* The subsequences of a sequence: the elements at a set of indices, in order.
Subsequences(s) ==
    {[n \in 1..Cardinality(I) |-> s[SortedIndices(I)[n]]] : I \in SUBSET (1..Len(s))}

\* The length of a longest common subsequence of two sequences.
LcsLength(s, t) ==
    LET common == Subsequences(s) \cap Subsequences(t)
    IN  CHOOSE n \in 0..Len(s) :
            /\ \E c \in common : Len(c) = n
            /\ \A c \in common : Len(c) <= n

\* C13: the number of equal operations in the edit script of
\* buildLineOperations is the length of a longest common subsequence of the
\* old and the new lines: no alignment keeps more lines.
C13_EqualsAreLongestCommonSubsequence ==
    pc \in {"aligned", "hunked"} =>
        Len(SelectSeq(operations, LAMBDA op : op.type = "equal"))
            = LcsLength(oldLines, newLines)

C13_Witness ==
    /\ pc = "aligned"
    /\ Len(oldLines) = MaxLines
    /\ Len(newLines) = MaxLines
    /\ LcsLength(oldLines, newLines) = 2
    /\ oldLines[1] # newLines[1]
    /\ operations[1].type = "add"

(***************************************************************************)
(* Properties of the merging of hunks                                      *)
(***************************************************************************)
\* The indices (from 0) of the operations that are not equal.
ChangeIndices == {p \in 0..(Len(operations) - 1) : operations[p + 1].type # "equal"}

InHunk(h, p) == h.hunkStart <= p /\ p <= h.hunkEnd

\* The last change a hunk covers.
LastChangeOf(h) ==
    CHOOSE p \in ChangeIndices :
        InHunk(h, p) /\ \A q \in ChangeIndices : InHunk(h, q) => q <= p

\* C14: buildDiffHunks merges changes that are close: two consecutive
\* changes at most 2 * context positions apart are in one hunk (with context
\* 2, two changes with exactly 3 equal operations between them), and a hunk
\* after the first starts at a change that is more than 2 * context positions
\* after the last change of the hunk before.
C14_CloseChangesShareHunk ==
    pc = "hunked" =>
        /\ \A p, q \in ChangeIndices :
               (/\ p < q
                /\ q - p <= 2 * context
                /\ \A r \in ChangeIndices : ~(p < r /\ r < q))
                   => \E k \in 1..Len(hunks) : InHunk(hunks[k], p) /\ InHunk(hunks[k], q)
        /\ \A k \in 1..(Len(hunks) - 1) :
               \A q \in ChangeIndices :
                   (hunks[k].hunkEnd < q /\ InHunk(hunks[k + 1], q))
                       => q - LastChangeOf(hunks[k]) > 2 * context

(***************************************************************************)
(* Properties of the choice between removal and addition                   *)
(***************************************************************************)
\* The length of a longest common subsequence of olds[i..] and news[j..],
\* indices from 0.
SuffixLcs(olds, news, i, j) == LcsLength(Slice(olds, i), Slice(news, j))

\* C15: when the walk of buildLineOperations stands at old line i and new
\* line j (from 0), these lines differ and the suffix values for (i + 1, j)
\* and (i, j + 1) are equal, the operation emitted is a removal; and when the
\* old and the new lines have no line in common the script is the removal of
\* every old line in order followed by the addition of every new line in
\* order.
C15_TieRemovesFirst ==
    pc \in {"aligned", "hunked"} =>
        /\ \A k \in 1..Len(operations) :
               LET i == CountBefore(operations, k - 1, "add")
                   j == CountBefore(operations, k - 1, "remove")
               IN  (/\ i < Len(oldLines)
                    /\ j < Len(newLines)
                    /\ oldLines[i + 1] # newLines[j + 1]
                    /\ SuffixLcs(oldLines, newLines, i + 1, j)
                           = SuffixLcs(oldLines, newLines, i, j + 1))
                       => operations[k].type = "remove"
        /\ (\A m \in 1..Len(oldLines) : \A n \in 1..Len(newLines) : oldLines[m] # newLines[n])
               => operations =
                      [m \in 1..Len(oldLines) |->
                          [type |-> "remove", line |-> oldLines[m],
                           oldLine |-> m, newLine |-> 0]]
                      \o [n \in 1..Len(newLines) |->
                            [type |-> "add", line |-> newLines[n],
                             oldLine |-> 0, newLine |-> n]]

C15_Witness ==
    /\ pc = "aligned"
    /\ \E k \in 2..Len(operations) :
           LET i == CountBefore(operations, k - 1, "add")
               j == CountBefore(operations, k - 1, "remove")
           IN  /\ i < Len(oldLines)
               /\ j < Len(newLines)
               /\ oldLines[i + 1] # newLines[j + 1]
               /\ SuffixLcs(oldLines, newLines, i + 1, j) > 0
               /\ SuffixLcs(oldLines, newLines, i + 1, j)
                      = SuffixLcs(oldLines, newLines, i, j + 1)
               /\ operations[k].type = "remove"
    /\ HasType(operations, "add")

(***************************************************************************)
(* Properties of the Move to lines and of the body lines of a patch        *)
(***************************************************************************)
IsMoveLine(line) ==
    StartsWith(line, <<"*", "*", "*", " ", "M", "o", "v", "e", " ", "t", "o", ":", " ">>)

MoveDestination(line) == Trim(Slice(line, 13))

\* C16: in convertApplyPatchToUnifiedDiff a "*** Move to: D" line with a
\* non-blank D that comes right after an Update File or Add File directive
\* with a path rewrites the "diff --git" line of that file so that it ends in
\* "b/D" and its "+++ " line to "+++ b/D", and leaves every other line of the
\* output as it was: the "--- " line of the file, the headers of the files
\* before and the body lines.
C16_MoveRewritesNewSideOnly ==
    Converted =>
        LET lines == PatchTextLines
        IN  \A k \in 2..Len(lines) :
                (/\ IsMoveLine(lines[k])
                 /\ MoveDestination(lines[k]) # <<>>
                 /\ NamesFile(lines[k - 1])
                 /\ DirectiveKind(lines[k - 1]) \in {"update", "add"})
                    => LET before == ConvertedUpTo(lines, k - 1).output
                           after == ConvertedUpTo(lines, k).output
                           last == Len(before)
                           moved == <<"b", "/">> \o MoveDestination(lines[k])
                       IN  /\ Len(after) = last
                           /\ after[last - 2] =
                                  <<"d", "i", "f", "f", " ", "-", "-", "g", "i", "t", " ">>
                                  \o Slice(ExpectedOldHeader(lines[k - 1]), 4)
                                  \o <<" ">> \o moved
                           /\ after[last - 1] = ExpectedOldHeader(lines[k - 1])
                           /\ after[last] = <<"+", "+", "+", " ">> \o moved
                           /\ \A n \in 1..(last - 3) : after[n] = before[n]

C16_Witness ==
    /\ Converted
    /\ edit.diff # Null
    /\ Len(PatchTextLines) = MaxPatchLines
    /\ DirectiveKind(PatchTextLines[1]) = "add"
    /\ IsMoveLine(PatchTextLines[2])
    /\ SplitLines(edit.diff)[3] = <<"+", "+", "+", " ", "b", "/", "c">>
    /\ SplitLines(edit.diff)[2] = <<"-", "-", "-", " ", "/", "d", "e", "v", "/", "n", "u", "l", "l">>

\* What the lines of a patch are to give, line by line: three header lines
\* (shown as Null here) for a file directive with a path, the line itself
\* for a line starting with "@@", "+", "-" or a space, nothing for any other.
RECURSIVE Skeleton(_)
Skeleton(lines) ==
    IF lines = <<>> THEN <<>>
    ELSE (IF NamesFile(lines[1]) THEN <<Null, Null, Null>>
          ELSE IF IsBodyLine(lines[1]) THEN <<lines[1]>>
          ELSE <<>>)
         \o Skeleton(Tail(lines))

IsFileHeaderLine(line) ==
    \/ StartsWith(line, <<"d", "i", "f", "f", " ", "-", "-", "g", "i", "t", " ">>)
    \/ StartsWith(line, <<"-", "-", "-", " ">>)
    \/ StartsWith(line, <<"+", "+", "+", " ">>)

\* C17: the diff text of convertApplyPatchToUnifiedDiff holds, besides the
\* three header lines of each file directive, exactly the lines of the text
\* it is given that start with "@@", "+", "-" or a space, as they are and in
\* their order; the Begin Patch, End Patch and End of File lines, empty lines
\* and any other text give no line.
C17_BodyLinesVerbatim ==
    (Converted /\ edit.diff # Null) =>
        LET lines == PatchTextLines
            skeleton == Skeleton(lines)
            output == SplitLines(edit.diff)
        IN  /\ Len(output) = Len(skeleton)
            /\ \A n \in 1..Len(skeleton) :
                   IF skeleton[n] = Null THEN IsFileHeaderLine(output[n])
                   ELSE output[n] = skeleton[n]

C17_Witness ==
    /\ Converted
    /\ edit.diff # Null
    /\ Len(PatchTextLines) = MaxPatchLines
    /\ PatchTextLines[1] = <<"+", "x">>
    /\ PatchTextLines[2] = <<>>
    /\ PatchTextLines[3] = <<"*", "*", "*", " ", "E", "n", "d", " ", "o", "f", " ", "F", "i", "l", "e">>
    /\ edit.diff = <<"+", "x">>

(***************************************************************************)
(* Properties of the detection of the apply-patch format                   *)
(***************************************************************************)
\* The name of the tool as the name field resolves it: name, tool_name, tool,
\* functionCall.name.
ResolvedName == TrimmedTextOrNull(FirstHeld(rawText, NameSlots, NonBlankText))

ResolvedNameIsApplyPatch ==
    /\ ResolvedName # Null
    /\ Includes(ToLowerCase(ResolvedName), <<"a", "p", "p", "l", "y", "_", "p", "a", "t", "c", "h">>)

InputHasBeginPatch ==
    PatchText # Null /\ Includes(PatchText, <<"*", "*", "*", " ", "B", "e", "g", "i", "n", " ", "P", "a", "t", "c", "h">>)

\* C18: a record with no diff or patch field is converted from the
\* apply-patch format if and only if its tool name, resolved through name,
\* tool_name, tool and functionCall.name, contains apply_patch or its input
\* contains "*** Begin Patch": then the diff is what the conversion gives (a
\* diff text when the input has a body line), and in every other case the
\* diff is null.
C18_DetectedByResolvedNameOrMarker ==
    (Parsed /\ ~HasExplicitDiff) =>
        IF ResolvedNameIsApplyPatch \/ InputHasBeginPatch
        THEN (edit.diff # Null) = (BodyLineCount(PatchTextLines) > 0)
        ELSE edit.diff = Null

(***************************************************************************)
(* Properties of the line numbers of DiffBlock                             *)
(***************************************************************************)
\* The words of s: what lies between its spaces.
WordsOf(s) ==
    LET cuts == SortedIndices({0, Len(s) + 1} \cup {i \in 1..Len(s) : s[i] = " "})
    IN  [k \in 1..(Len(cuts) - 1) |-> SubSeq(s, cuts[k] + 1, cuts[k + 1] - 1)]

AllDigits(w) == Len(w) > 0 /\ \A i \in 1..Len(w) : IsDigit(w[i])

\* The start line of one side of a hunk header, sign start[,count]; Blank
\* when the word is not of that form.
SideStart(word, sign) ==
    IF Len(word) = 0 \/ Head(word) # sign THEN Blank
    ELSE LET rest == Tail(word)
             commas == {i \in 1..Len(rest) : rest[i] = ","}
         IN  IF commas = {}
             THEN IF AllDigits(rest) THEN ToNumber(rest) ELSE Blank
             ELSE LET c == CHOOSE i \in commas : TRUE
                  IN  IF /\ Cardinality(commas) = 1
                         /\ AllDigits(SubSeq(rest, 1, c - 1))
                         /\ AllDigits(SubSeq(rest, c + 1, Len(rest)))
                      THEN ToNumber(SubSeq(rest, 1, c - 1))
                      ELSE Blank

\* Whether "@@ -o[,oc] +n[,nc] @@" stands in line from index p on.
HeaderStandsAt(line, p) ==
    LET words == WordsOf(SubSeq(line, p, Len(line)))
    IN  /\ Len(words) >= 4
        /\ words[1] = <<"@", "@">>
        /\ SideStart(words[2], "-") # Blank
        /\ SideStart(words[3], "+") # Blank
        /\ StartsWith(words[4], <<"@", "@">>)

\* The start lines of the first hunk header that stands in line.
HeaderOf(line) ==
    LET places == {p \in 1..Len(line) : HeaderStandsAt(line, p)}
    IN  IF places = {} THEN [matched |-> FALSE]
        ELSE LET p == CHOOSE q \in places : \A r \in places : q <= r
                 words == WordsOf(SubSeq(line, p, Len(line)))
             IN  [matched |-> TRUE,
                  oldLine |-> SideStart(words[2], "-"),
                  newLine |-> SideStart(words[3], "+")]

IsAtAtLine(line) == StartsWith(line, <<"@", "@">>)

\* The two numbers each row shows.
NumbersOf(rs) == [k \in 1..Len(rs) |-> <<rs[k].oldNumber, rs[k].newNumber>>]

\* s without its k-th element.
Without(s, k) == SubSeq(s, 1, k - 1) \o SubSeq(s, k + 1, Len(s))

\* C19: the numbers start at 1 and 1; a line that starts with "@@" gets a
\* meta row with no number and the line as its text; when the line holds
\* "@@ -o[,oc] +n[,nc] @@" the next numbered row shows o or n, and when it
\* does not, every other row shows the numbers it would show without the line.
C19_HeaderSetsNumbers ==
    (pc = "rendered" /\ diffText # Null) =>
        LET lines == SplitLines(diffText)
        IN  /\ Len(rows) = Len(lines)
            /\ rows[1].oldNumber \in {Blank, 1} \/ IsAtAtLine(lines[1])
            /\ rows[1].newNumber \in {Blank, 1} \/ IsAtAtLine(lines[1])
            /\ \A k \in 1..Len(lines) : IsAtAtLine(lines[k]) =>
                 LET header == HeaderOf(lines[k])
                 IN  /\ rows[k].kind = "meta"
                     /\ rows[k].oldNumber = Blank /\ rows[k].newNumber = Blank
                     /\ rows[k].content = lines[k]
                     /\ (header.matched /\ k < Len(lines) /\ ~IsAtAtLine(lines[k + 1])) =>
                          /\ rows[k + 1].oldNumber \in {Blank, header.oldLine}
                          /\ rows[k + 1].newNumber \in {Blank, header.newLine}
                     /\ (~header.matched /\ Len(lines) > 1) =>
                          Without(NumbersOf(rows), k)
                              = NumbersOf(DiffBlock(JoinLines(Without(lines, k))))

\* C19 witness: a hunk header whose next row shows its two start lines and,
\* after that row, a line that starts with "@@" and is no hunk header, whose
\* next row shows the numbers that follow.
C19_Witness ==
    /\ pc = "rendered"
    /\ diffText = JoinLines(<<<<"@", "@", " ", "-", "3", " ", "+", "5", " ", "@", "@">>, <<" ", "z">>,
                              <<"@", "@", " ", "-", "a", " ", "+", "1", " ", "@", "@">>, <<" ", "z">>>>)
    /\ NumbersOf(rows) = <<<<Blank, Blank>>, <<3, 5>>, <<Blank, Blank>>, <<4, 6>>>>

Largest(S) == CHOOSE k \in S : \A m \in S : m <= k

\* The number a row must show on one side: one more than the last number
\* shown on that side, unless a hunk header came after it, which gives its
\* own start line; 1 before any of them.  shown(k) is the number row k shows
\* on the side, start(h) the start line of a header for the side.
NumberDue(j, shown(_), start(_)) ==
    LET earlier == {i \in 1..(j - 1) : shown(i) # Blank}
        headers == {i \in 1..(j - 1) :
                       /\ rows[i].kind = "meta"
                       /\ IsAtAtLine(rows[i].content)
                       /\ HeaderOf(rows[i].content).matched}
        lastShown == Largest(earlier \cup {0})
        lastHeader == Largest(headers \cup {0})
    IN  IF lastShown > lastHeader THEN shown(lastShown) + 1
        ELSE IF lastHeader > 0 THEN start(HeaderOf(rows[lastHeader].content))
        ELSE 1

OldShown(k) == rows[k].oldNumber
NewShown(k) == rows[k].newNumber
OldStart(header) == header.oldLine
NewStart(header) == header.newLine

\* C20: a removed row shows the old number only, an added row the new number
\* only, a context row both and a meta row none; each number shown is one
\* more than the last one shown on its side, the start line of the hunk
\* header when one came in between, so that after a header the old numbers
\* run o, o+1, ... and the new numbers n, n+1, ... with no gap and no repeat.
C20_NumbersAdvanceByRowKind ==
    (pc = "rendered" /\ diffText # Null) =>
        \A j \in 1..Len(rows) :
            /\ rows[j].kind \in {"remove", "add", "context", "meta"}
            /\ (rows[j].oldNumber # Blank) = (rows[j].kind \in {"remove", "context"})
            /\ (rows[j].newNumber # Blank) = (rows[j].kind \in {"add", "context"})
            /\ rows[j].oldNumber # Blank =>
                 rows[j].oldNumber = NumberDue(j, OldShown, OldStart)
            /\ rows[j].newNumber # Blank =>
                 rows[j].newNumber = NumberDue(j, NewShown, NewStart)

\* C20 witness: after a header with start lines 2 and 4, a removed row paired
\* with an added row shows 2 and 4, and the context row after them 3 and 5.
C20_Witness ==
    /\ pc = "rendered"
    /\ diffText = JoinLines(<<<<"@", "@", " ", "-", "2", ",", "3", " ", "+", "4", ",", "2", " ", "@", "@", " ", "f">>, <<"-", "y">>,
                              <<"+", "x">>, <<" ", "z">>>>)
    /\ rows[2].kind = "remove" /\ rows[2].paired
    /\ rows[3].kind = "add" /\ rows[3].paired
    /\ NumbersOf(rows) = <<<<Blank, Blank>>, <<2, Blank>>, <<Blank, 4>>, <<3, 5>>>>

(***************************************************************************)
(* Properties of the pairing of removed and added lines in DiffBlock       *)
(***************************************************************************)
\* A removed line of a diff text: "-" first, and not the header "--- ".
RemovedLine(line) ==
    /\ Len(line) > 0 /\ Head(line) = "-"
    /\ ~(Len(line) >= 4 /\ SubSeq(line, 1, 4) = <<"-", "-", "-", " ">>)

\* An added line of a diff text: "+" first, and not the header "+++ ".
AddedLine(line) ==
    /\ Len(line) > 0 /\ Head(line) = "+"
    /\ ~(Len(line) >= 4 /\ SubSeq(line, 1, 4) = <<"+", "+", "+", " ">>)

\* C21: the inline parts come from diffInlineSegments and are attached
\* exactly to a removed line whose next line is an added line, and to that
\* added line: the two give a remove row with the left parts and then an add
\* row with the right parts; every other row has no parts.  So in a run of
\* removed lines followed by added lines only the last removed and the first
\* added line are paired.
C21_InlinePartsExactlyForAdjacentPair ==
    (pc = "rendered" /\ diffText # Null) =>
        LET lines == SplitLines(diffText)
            opens(k) == /\ k >= 1 /\ k < Len(lines)
                        /\ RemovedLine(lines[k]) /\ AddedLine(lines[k + 1])
        IN  /\ Len(rows) = Len(lines)
            /\ \A k \in 1..Len(lines) :
                 IF opens(k)
                 THEN LET aligned == DiffInlineSegments(Tail(lines[k]), Tail(lines[k + 1]))
                      IN  /\ rows[k].kind = "remove" /\ rows[k].paired
                          /\ rows[k].parts = aligned.left
                          /\ rows[k + 1].kind = "add" /\ rows[k + 1].paired
                          /\ rows[k + 1].parts = aligned.right
                 ELSE opens(k - 1) \/ (~rows[k].paired /\ rows[k].parts = <<>>)

\* C21 witness: of two removed lines followed by two added lines only the
\* second and the third are paired, and the one word of each is marked changed.
C21_Witness ==
    /\ pc = "rendered"
    /\ diffText = JoinLines(<<<<"-", "y">>, <<"-", "y">>, <<"+", "x">>, <<"+", "x">>>>)
    /\ [k \in 1..4 |-> rows[k].paired] = <<FALSE, TRUE, TRUE, FALSE>>
    /\ rows[2].parts = <<[text |-> <<"y">>, changed |-> TRUE]>>
    /\ rows[3].parts = <<[text |-> <<"x">>, changed |-> TRUE]>>

(***************************************************************************)
(* Properties of the common parts of diffInlineSegments                    *)
(***************************************************************************)
TextsOfParts(parts) == [k \in 1..Len(parts) |-> parts[k].text]

UnchangedTexts(parts) == TextsOfParts(SelectSeq(parts, LAMBDA part : ~part.changed))

\* C22: the texts of the unchanged parts are the same sequence on both
\* sides, and as long as the longest common subsequence of the two token
\* sequences; the parts of a side are its tokens, one part each, so every
\* token outside the common sequence is a changed part of its own side.
C22_UnchangedPartsAreLongestCommon ==
    pc = "segmented" =>
        /\ TextsOfParts(inline.left) = Tokenize(left)
        /\ TextsOfParts(inline.right) = Tokenize(right)
        /\ UnchangedTexts(inline.left) = UnchangedTexts(inline.right)
        /\ Len(UnchangedTexts(inline.left)) = LcsLength(Tokenize(left), Tokenize(right))

\* C22 witness: two strings whose first tokens differ and that share two
\* tokens further on, one of them white space.
C22_Witness ==
    /\ pc = "segmented"
    /\ Len(inline.left) > 0
    /\ inline.left[1].changed
    /\ Len(UnchangedTexts(inline.left)) = 2
    /\ \E k \in 1..Len(inline.right) : inline.right[k].changed
    /\ \E k \in 1..Len(inline.right) :
           ~inline.right[k].changed /\ IsSpace(inline.right[k].text[1])

(***************************************************************************)
(* Properties of the rows of a text pair against its edit script           *)
(***************************************************************************)
\* The kind and the two numbers of the row an operation stands for.
RowOfOp(op) ==
    IF op.type = "equal" THEN <<"context", op.oldLine, op.newLine>>
    ELSE IF op.type = "remove" THEN <<"remove", op.oldLine, Blank>>
    ELSE <<"add", Blank, op.newLine>>

\* The rows due for the hunks hs of the operations ops: for each hunk a
\* header row and a row for each of its operations.
RECURSIVE RowsDue(_, _)
RowsDue(ops, hs) ==
    IF hs = <<>> THEN <<>>
    ELSE LET hunkOps == SubSeq(ops, hs[1].hunkStart + 1, hs[1].hunkEnd + 1)
         IN  <<<<"meta", Blank, Blank>>>>
             \o [k \in 1..Len(hunkOps) |-> RowOfOp(hunkOps[k])]
             \o RowsDue(ops, Tail(hs))

\* C23: in the diff block of a text pair, after the two file header rows,
\* every hunk gives its header row and then, for each of its operations in
\* order, one row of the operation's kind (equal: context, remove: remove,
\* add: add) showing the operation's own old and/or new line number,
\* whatever the text of the lines is.
C23_RowsAgreeWithEditScript ==
    (pc = "rendered" /\ view = "pair" /\ hunks # <<>>) =>
        LET due == RowsDue(operations, hunks)
        IN  /\ Len(rows) = 2 + Len(due)
            /\ \A k \in 1..Len(due) :
                   <<rows[k + 2].kind, rows[k + 2].oldNumber, rows[k + 2].newNumber>> = due[k]

(***************************************************************************)
(* Properties of the hunks: changes covered once, bounded context          *)
(***************************************************************************)
\* The number of lines at the start of ls that begin with a space.
RECURSIVE LeadingContext(_)
LeadingContext(ls) ==
    IF ls = <<>> \/ Head(Head(ls)) # " " THEN 0 ELSE 1 + LeadingContext(Tail(ls))

Reversed(s) == [k \in 1..Len(s) |-> s[Len(s) + 1 - k]]

\* C24: every remove or add operation lies in exactly one hunk of
\* buildDiffHunks; every hunk holds at least one remove or add line, starts
\* with at most context lines of context and ends with at most context lines
\* of context.
C24_ChangesInOneHunkContextBounded ==
    pc = "hunked" =>
        /\ \A p \in ChangeIndices :
               Cardinality({k \in 1..Len(hunks) : InHunk(hunks[k], p)}) = 1
        /\ \A k \in 1..Len(hunks) :
               /\ hunks[k].lines
                      = [n \in 1..(hunks[k].hunkEnd - hunks[k].hunkStart + 1) |->
                            HunkLine(operations[hunks[k].hunkStart + n])]
               /\ \E n \in 1..Len(hunks[k].lines) : Head(hunks[k].lines[n]) \in {"-", "+"}
               /\ LeadingContext(hunks[k].lines) <= context
               /\ LeadingContext(Reversed(hunks[k].lines)) <= context

\* C24 witness: two hunks, the first ending and the second starting with
\* exactly context lines of context, with context at least 1.
C24_Witness ==
    /\ pc = "hunked"
    /\ context >= 1
    /\ Len(hunks) = 2
    /\ LeadingContext(Reversed(hunks[1].lines)) = context
    /\ LeadingContext(hunks[2].lines) = context

(***************************************************************************)
(* Properties of the file section of a Delete File directive               *)
(***************************************************************************)
\* C25: in the diff text of the apply-patch conversion, the third header line
\* of the section that a Delete File directive with a path started is
\* "+++ /dev/null", whatever lines follow the directive.
C25_DeleteKeepsDevNull ==
    (Converted /\ edit.diff # Null) =>
        LET lines == PatchTextLines
        IN  \A k \in 1..Len(lines) :
                (DirectiveKind(lines[k]) = "delete" /\ NamesFile(lines[k])) =>
                    SplitLines(edit.diff)[Len(ConvertedUpTo(lines, k).output)]
                        = <<"+", "+", "+", " ", "/", "d", "e", "v", "/", "n", "u", "l", "l">>

(***************************************************************************)
(* Properties of the category chips of the search view                     *)
(***************************************************************************)
ValuesOf(values) == {values[k] : k \in 1..Len(values)}

\* C30: after any clicks on the category chips of the search view,
\* searchCategories is not empty and holds no value twice; toggling the only
\* selected value returns the list unchanged, and a toggle that leaves every
\* category selected returns CATEGORIES in its own order.
C30_SearchCategoriesNonEmptyNoDuplicates ==
    /\ Len(searchCategories) >= 1
    /\ Cardinality(ValuesOf(searchCategories)) = Len(searchCategories)
    /\ \A k \in 1..Len(CATEGORIES) :
           LET next == ToggleRequiredValue(searchCategories, CATEGORIES[k], CATEGORIES)
           IN  /\ searchCategories = <<CATEGORIES[k]>> => next = searchCategories
               /\ ValuesOf(next) = ValuesOf(CATEGORIES) => next = CATEGORIES

\* C30 witness: clicks have selected every category, and the list is
\* CATEGORIES itself although user and assistant were selected first.
C30_Witness ==
    /\ pc = "toggled"
    /\ Len(searchCategories) = Len(CATEGORIES)
    /\ searchCategories = CATEGORIES

(***************************************************************************)
(* Properties of the refreshing flag                                       *)
(***************************************************************************)
\* C28: refreshing is true whenever a call of handleRefresh has not finished,
\* however the calls started from the buttons and from the keyboard
\* interleave, and false when none is in flight.
C28_RefreshingWhileInFlight == refreshing = (refreshes # <<>>)

(***************************************************************************)
(* Properties of the session list and of the navigation to a search result *)
(***************************************************************************)
\* C26: once no sessions:list request is in flight, no effect is left to run
\* and no request has failed for
\* the selected project, the sessions listed are those of the selected
\* project, in whichever order the responses arrived: the response to a
\* request for a project that is no longer selected is never the one left
\* in sessions.
C26_SessionsOfSelectedProject ==
    (Settled /\ sessionsRequests = <<>> /\ selectedProjectId # "" /\ statusText = "") =>
        sessions = SessionsOf(selectedProjectId)

\* The state in which the navigation to result has been carried out.
Navigated(result) ==
    /\ pendingSearchNavigation = NoNavigation
    /\ selectedProjectId = result.projectId
    /\ selectedSessionId = result.sessionId
    /\ sessionPage = 0
    /\ focusSourceId = result.sourceId
    /\ mainView = "history"

\* While a navigation is pending, the effects of a render leave the selected
\* project and the selected session alone, or select those of the navigation.
SelectionKeptWhilePending ==
    [][(pendingSearchNavigation.pending /\ pc' = "effectsRun")
         => (/\ selectedProjectId' \in {selectedProjectId,
                                          pendingSearchNavigation.projectId}
             /\ selectedSessionId' \in {selectedSessionId,
                                          pendingSearchNavigation.sessionId})]_vars

\* C29: after a click on a search result for project P, session S and
\* message M, the auto-selection effects do not replace the selected project
\* or session while the navigation is pending, and once the session list of
\* P is loaded and holds S the navigation is carried out in the end: no
\* navigation pending, P and S selected, page 0, focus on M, history view.
C29_SearchNavigationCompletes ==
    /\ SelectionKeptWhilePending
    /\ \A result \in SearchResults :
           (pendingSearchNavigation = result
                /\ sessions = SessionsOf(result.projectId)
                /\ IncludesValue(sessions, result.sessionId))
             ~> Navigated(result)

\* C29 witness: a render after the response with the sessions of A has
\* carried out the navigation to session s2 and message m1.
C29_Witness ==
    /\ pc = "effectsRun"
    /\ Navigated(SearchResult("A", "s2", "m1"))
    /\ sessions = SessionsOf("A")

(***************************************************************************)
(* Properties of the session detail effect                                 *)
(***************************************************************************)
\* The request is answered in the step: it is in flight before and not after.
Delivered(request) ==
    \A k \in 1..Len(detailRequests') : detailRequests'[k].id # request.id

\* A dependency of the effect changed after the request was issued: a later
\* request was issued, or the dependencies are not the request's arguments.
Superseded(request) ==
    request.id # detailIssued \/ request.args # DepsOf(DetailState)

\* C27: the response to a sessions:getDetail request, or its failure, leaves
\* sessionDetail, sessionPage and the status text as they are when any of
\* selectedSessionId, sessionPage, historyCategories, sessionQuery and
\* focusSourceId changed after the request was issued; only the response to
\* a request whose arguments are still the current values is applied.
C27_SupersededDetailResponseDropped ==
    [][\A k \in 1..Len(detailRequests) :
           (Delivered(detailRequests[k]) /\ Superseded(detailRequests[k]))
             => (/\ sessionDetail' = sessionDetail
                 /\ sessionPage' = sessionPage
                 /\ statusText' = statusText)]_vars

\* C27 witness: the response to a superseded request has arrived and was
\* dropped while the request for page 1 that replaced it is still in flight,
\* and the detail shown is still the one of page 0.
C27_Witness ==
    /\ pc = "detailDropped"
    /\ sessionPage = 1
    /\ sessionDetail.loaded /\ sessionDetail.page = 0
    /\ Len(detailRequests) = 1
    /\ ~detailRequests[1].cancelled
    /\ detailRequests[1].args.page = 1

====
